---- MODULE Spec2Model ----
(***************************************************************************)
(* Fastay: the handler-result interpreter (wrapHandler), the error         *)
(* pipeline behind it, and the route loader (loadApiRoutes).               *)
(*                                                                         *)
(* The model follows the latest variant of the router                      *)
(* (src/dist/router.js lines 186-396: the one with the module cache and    *)
(* per-route sub-routers) and the application bootstrap that mounts it     *)
(* (src/unnamed/part_022).  Where the sources hold more than one variant   *)
(* of a function the section that models it says so: createApp is          *)
(* modelled in both of its orders (src/unnamed/part_022 and                *)
(* src/dist/app.js lines 442-598), and the catch blocks that read the      *)
(* source line of an error follow src/dist/router.js lines 155-181 and     *)
(* 597-625 and src/dist/error-handler.js.                                  *)
(***************************************************************************)
EXTENDS Integers, Sequences, FiniteSets, TLC

VARIABLES
    phase,          \* position of the request in flight
    customHandler,  \* opts.expressOptions.errorHandler was supplied
    fn,             \* the exported handler serving the request
    calledWith,     \* arguments wrapHandler passed to fn
    res,            \* the response sink of the request in flight
    ops,            \* calls the adapter made on the sink, in order
    thrown,         \* what reached the adapter's catch block
    logged,         \* logger.error calls made by the adapter
    nextCalls,      \* next(err) calls made by the adapter
    pendingErr,     \* the error travelling through the host's error chain
    escaped,        \* the adapter's promise rejected
    alive,          \* the server process is running
    nodeEnv,        \* process.env.NODE_ENV
    files,          \* what collectFiles returned for the load in progress
    imports,        \* state of each entry of modulePromises
    moduleCache,    \* keys of the process-wide moduleCache
    loadPc,         \* position of loadApiRoutes
    registered,     \* registrations made on sub-routers, in order
    mounted,        \* routes handed to app.use, in order
    count,          \* the counter loadApiRoutes returns
    loadLog,        \* files a load failure was logged for
    loads,          \* calls of loadApiRoutes so far
    importRuns,     \* import() calls made for each file
    cacheReads,     \* moduleCache.has calls made
    cacheWrites,    \* moduleCache.set calls made for each file
    routeCache,     \* the process-wide routeCache of filePathToRoute
    routeFile,      \* the file filePathToRoute is asked about
    baseRoute,      \* the baseRoute of the latest filePathToRoute call
    route,          \* what the latest filePathToRoute call returned
    routeCalls,     \* calls of filePathToRoute so far
    tree,           \* the directory tree collectFiles walks
    stack,          \* collectFiles: directories still to read
    walkResult,     \* collectFiles: the paths collected so far (`result`)
    warned,         \* directories logger.warn was called for
    walkPc,         \* position of collectFiles
    mwMap,          \* the middleware map given to createMiddleware
    appStack,       \* the layers attached to the host application, in order
    bootPc,         \* position of createApp
    reqPath,        \* path of the request being dispatched
    layerPos,       \* the layer the host considers next for the request
    ran,            \* middlewares and route handlers run for the request
    mwPhase,        \* position of the dispatch of the request
    mwErr,          \* an error is travelling down the stack
    mwNextCalls,    \* calls of next made for the middleware run last
    mwNextArg,      \* what next was called with for it
    mwLogged,       \* logger.error calls made by its wrapper
    mwEscaped,      \* the wrapper's promise rejected
    endedBy,        \* who ended the response of the request
    build,          \* the createApp source the application was built from
    bootAt,         \* the statement of createApp to execute next
    listening,      \* server.listen has been called
    autoMap,        \* the map src/middlewares/middleware.ts exports
    globals,        \* opts.expressOptions.middlewares
    nextBy,         \* calls of next made for each entry of `ran`
    unwinding,      \* entries of `ran` that called next() and have yet to fail
    mwReply,        \* the response the request received
    enSite,         \* the catch block that is running
    enErr,          \* the error it caught
    enPc,           \* position inside the catch block
    enFileInfo,     \* `fileInfo`
    enLogged,       \* logger.error calls made by the catch block
    enNext,         \* next(err) calls made by the catch block
    enRest,         \* files the loop of loadApiRoutes has still to load
    srExports,      \* the names one route module exports
    srStack,        \* the registrations on the module's sub-router, in order
    srMethod,       \* the method of the request the sub-router received
    srPos,          \* the registration the sub-router considers next
    srInvoked,      \* the exports whose handlers were invoked for the request
    srPhase,        \* position of the request inside the sub-router
    srAnsweredBy    \* who answered the request

reqVars == <<phase, customHandler, fn, calledWith, res, ops, thrown, logged,
             nextCalls, pendingErr, escaped, alive>>

loadVars == <<nodeEnv, files, imports, moduleCache, loadPc, registered,
              mounted, count, loadLog, loads, importRuns, cacheReads,
              cacheWrites>>

routeVars == <<routeCache, routeFile, baseRoute, route, routeCalls>>

walkVars == <<tree, stack, walkResult, warned, walkPc>>

bootVars == <<build, bootAt, listening, autoMap, globals>>

mwVars == <<mwMap, appStack, bootPc, reqPath, layerPos, ran, mwPhase, mwErr,
            mwNextCalls, mwNextArg, mwLogged, mwEscaped, endedBy, bootVars,
            nextBy, unwinding, mwReply>>

\* everything but the request in flight, but the loader, but the route map,
\* but the directory walk, but the middleware stack
enrichVars == <<enSite, enErr, enPc, enFileInfo, enLogged, enNext, enRest>>

subVars == <<srExports, srStack, srMethod, srPos, srInvoked, srPhase,
             srAnsweredBy>>

exceptReq == <<loadVars, routeVars, walkVars, mwVars, enrichVars, subVars>>
exceptLoad == <<reqVars, routeVars, walkVars, mwVars, enrichVars, subVars>>
exceptRoute == <<reqVars, loadVars, walkVars, mwVars, enrichVars, subVars>>
exceptWalk == <<reqVars, loadVars, routeVars, mwVars, enrichVars, subVars>>
exceptMw == <<reqVars, loadVars, routeVars, walkVars, enrichVars, subVars>>
exceptEnrich == <<reqVars, loadVars, routeVars, walkVars, mwVars, subVars>>
exceptSub == <<reqVars, loadVars, routeVars, walkVars, mwVars, enrichVars>>

vars == <<reqVars, loadVars, routeVars, walkVars, mwVars, enrichVars, subVars>>

\* no sub-router is under test
SubIdle ==
    /\ srExports = {}
    /\ srStack = <<>>
    /\ srMethod = ""
    /\ srPos = 0
    /\ srInvoked = <<>>
    /\ srPhase = "idle"
    /\ srAnsweredBy = "nobody"

\* no catch block is running
EnrichIdle ==
    /\ enSite = "none"
    /\ enErr = [kind |-> "none"]
    /\ enPc = "idle"
    /\ enFileInfo = ""
    /\ enLogged = 0
    /\ enNext = 0
    /\ enRest = 0

\* no application is being assembled
MwIdle ==
    /\ mwMap = <<>>
    /\ appStack = <<>>
    /\ bootPc = "start"
    /\ reqPath = <<>>
    /\ layerPos = 0
    /\ ran = <<>>
    /\ mwPhase = "idle"
    /\ mwErr = FALSE
    /\ mwNextCalls = 0
    /\ mwNextArg = "none"
    /\ mwLogged = 0
    /\ mwEscaped = FALSE
    /\ endedBy = "nobody"
    /\ build = "part_022"
    /\ bootAt = 1
    /\ listening = FALSE
    /\ autoMap = <<>>
    /\ globals = <<>>
    /\ nextBy = <<>>
    /\ unwinding = <<>>
    /\ mwReply = [status |-> 0]

\* collectFiles has not been called
WalkIdle ==
    /\ tree = [width |-> 0, chain |-> 0, bad |-> 0]
    /\ stack = <<>>
    /\ walkResult = <<>>
    /\ warned = {}
    /\ walkPc = "idle"

\* filePathToRoute has not been called
RouteIdle ==
    /\ routeCache = <<>>
    /\ routeFile = [parts |-> <<>>, filename |-> ""]
    /\ baseRoute = <<>>
    /\ route = [isNull |-> TRUE, text |-> <<>>]
    /\ routeCalls = 0

-----------------------------------------------------------------------------
(* Bounds of the model *)

\* entries of a returned `headers` map
MaxHeaders == 2
\* entries of a returned `cookies` map
MaxCookies == 1
\* invocations of loadApiRoutes that can be in flight at the same time
MaxOverlap == 2

-----------------------------------------------------------------------------
(* Values *)

\* program constants of the adapter and of the default error handler
DefaultRedirectStatus == 302
DefaultStatus == 200
ErrorStatus == 500
NotFoundStatus == 404

HeaderName(i) == <<"X-A", "X-B", "X-C", "X-D">>[i]
CookieName(i) == <<"sid", "theme", "lang">>[i]

HeaderChoices == {<<>>, [i \in 1..MaxHeaders |-> HeaderName(i)]}
CookieChoices == {<<>>, [i \in 1..MaxCookies |-> CookieName(i)]}

\* A handler result.  `kind` is JavaScript's typeof (with undefined and
\* null apart).  For kind = "object" the remaining fields are the keys the
\* adapter reads; a key that is missing carries the value that reads the
\* same in the code:
\*   headers, cookies : the entries in Object.entries order (<<>>: no key)
\*   redirect         : the target ("": no key)
\*   file             : "none" | "named" (filename given) | "unnamed"
\*   stream           : a readable stream was given
\*   raw              : "absent" | "empty" (the string "") | "bytes"
\*   static           : "none" | "typed" (contentType given) | "untyped"
\*   status           : the number (0: no key)
\*   body             : "absent" | "null" | "value" | "circular"
\*                      ("circular": a value JSON.stringify throws on)
NoFields ==
    [headers |-> <<>>, cookies |-> <<>>, redirect |-> "", file |-> "none",
     stream |-> FALSE, raw |-> "absent", static |-> "none", status |-> 0,
     body |-> "absent"]

Prim(k, s, n, b) ==
    [kind |-> k, str |-> s, num |-> n, bool |-> b, o |-> NoFields]

PrimResults ==
    {Prim("undefined", "", 0, FALSE), Prim("null", "", 0, FALSE),
     Prim("function", "", 0, FALSE),
     Prim("string", "ok", 0, FALSE), Prim("string", "", 0, FALSE),
     Prim("number", "", 7, FALSE), Prim("number", "", 42, FALSE),
     Prim("boolean", "", 0, TRUE), Prim("boolean", "", 0, FALSE)}

ObjFields ==
    [headers : HeaderChoices, cookies : CookieChoices,
     redirect : {"", "/new-route"}, file : {"none", "named", "unnamed"},
     stream : BOOLEAN, raw : {"absent", "empty", "bytes"},
     static : {"none", "typed", "untyped"}, status : {0, 201},
     body : {"absent", "null", "value", "circular"}]

ObjResults ==
    {[kind |-> "object", str |-> "", num |-> 0, bool |-> FALSE, o |-> f] :
        f \in ObjFields}

Results == PrimResults \cup ObjResults

\* An exported handler: its declared parameter count, what it does to the
\* sink itself, how it settles, and the value it returns.
\*   direct  : "none" | "status" (res.status(202)) | "flush" (res.write:
\*             headers out, body open) | "end" (res.send: response complete)
\*   outcome : "return" | "throw" (an Error) | "throwNullish" (throw
\*             undefined / Promise.reject())
\* A handler declaring fewer than two parameters is never handed the sink.
Shapes ==
    {<<0, "none">>, <<1, "none">>, <<2, "none">>, <<2, "status">>,
     <<2, "flush">>, <<2, "end">>, <<3, "end">>}

Handler(shape, outcome, result) ==
    [length |-> shape[1], direct |-> shape[2], outcome |-> outcome,
     result |-> result]

Handlers ==
    {Handler(sh, "return", r) : sh \in Shapes, r \in Results}
    \cup {Handler(sh, t, Prim("undefined", "", 0, FALSE)) :
             sh \in Shapes, t \in {"throw", "throwNullish"}}

NoHandler ==
    [length |-> 1, direct |-> "none", outcome |-> "return",
     result |-> Prim("undefined", "", 0, FALSE)]

\* An error value: thrown by a handler, raised while interpreting, or
\* reported by the host.  statusCode 0: the error carries none.
NoErr == [present |-> FALSE, nullish |-> FALSE, statusCode |-> 0]
Err(nullish, code) == [present |-> TRUE, nullish |-> nullish, statusCode |-> code]

\* `json`: the keys of the JSON body an error handler wrote ("none": it
\* wrote no body)
FreshRes == [statusCode |-> DefaultStatus, headersSent |-> FALSE, ended |-> FALSE,
             aborted |-> FALSE, by |-> "nobody", json |-> "none"]

\* values of process.env.NODE_ENV ("unset": the variable is not defined)
NodeEnvs == {"production", "development", "test", "unset"}

-----------------------------------------------------------------------------
(* Calls on the response sink *)

Op(name, arg, code) == [op |-> name, arg |-> arg, code |-> code]

TerminalOps == {"redirect", "download", "pipe", "send", "sendFile", "json"}
AsyncOps == {"download", "pipe", "sendFile"}

IsTerminal(c) == c.op \in TerminalOps

-----------------------------------------------------------------------------
(* String(result): the text res.send receives for a primitive *)

Digit(d) == <<"0", "1", "2", "3", "4", "5", "6", "7", "8", "9">>[d + 1]

RECURSIVE NumToString(_)
NumToString(n) ==
    IF n < 10 THEN Digit(n) ELSE NumToString(n \div 10) \o Digit(n % 10)

ToText(r) ==
    CASE r.kind = "string" -> r.str
      [] r.kind = "number" -> NumToString(r.num)
      [] r.kind = "boolean" -> (IF r.bool THEN "true" ELSE "false")
      [] OTHER -> "null"

-----------------------------------------------------------------------------
(* wrapHandler: src/dist/router.js 267-330 *)

\* an adapter that hands the sink to every handler
CallArgs_AlwaysBoth(length) == "req,res"

\* fn.length >= 2 ? fn(request, res) : fn(request)
CallArgs(length) == IF length >= 2 THEN "req,res" ELSE "req"

\* the sink as the handler leaves it
AfterHandler(h) ==
    CASE h.direct = "status" -> [FreshRes EXCEPT !.statusCode = 202]
      [] h.direct = "flush" ->
            [FreshRes EXCEPT !.headersSent = TRUE, !.by = "handler"]
      [] h.direct = "end" ->
            [FreshRes EXCEPT !.headersSent = TRUE, !.ended = TRUE,
                             !.by = "handler"]
      [] OTHER -> FreshRes

\* a guard that forgets res.headersSent
SkipResult_IgnoresHeadersSent(sink, result) == result.kind = "undefined"

\* if (res.headersSent || result === undefined) return;
SkipResult(sink, result) == sink.headersSent \/ result.kind = "undefined"

\* x ?? d for a numeric key whose absence is written 0
OrDefault(x, d) == IF x # 0 THEN x ELSE d

\* for (const [k, v] of Object.entries(response.headers)) res.setHeader(k, v)
HeaderOps(o) == [i \in 1..Len(o.headers) |-> Op("setHeader", o.headers[i], 0)]

\* for (const [name, cookie] of Object.entries(response.cookies)) res.cookie(...)
CookieOps(o) == [i \in 1..Len(o.cookies) |-> Op("cookie", o.cookies[i], 0)]

\* response.body ?? result
JsonValue(o) == IF o.body \in {"absent", "null"} THEN "result" ELSE o.body

\* a redirect that ignores the returned status
RedirectCall_IgnoresStatus(o) ==
    <<Op("redirect", o.redirect, DefaultRedirectStatus)>>

\* return res.redirect(response.status ?? 302, response.redirect)
RedirectCall(o) ==
    <<Op("redirect", o.redirect, OrDefault(o.status, DefaultRedirectStatus))>>

\* res.download(path, filename, options) or res.download(path, options)
DownloadCall(o) ==
    <<Op("download", IF o.file = "named" THEN "filename" ELSE "path", 0)>>

\* return res.status(response.status ?? 200).send(response.raw)
RawCalls(o) ==
    <<Op("status", "", OrDefault(o.status, DefaultStatus)), Op("send", "bytes", 0)>>

\* res.setHeader('Content-Type', contentType || getMime(path)); res.sendFile(..)
StaticCalls(o) ==
    <<Op("setHeader", "Content-Type", 0), Op("sendFile", "path", 0)>>

\* return res.status(response.status ?? 200).json(response.body ?? result)
JsonCalls(o) ==
    IF JsonValue(o) = "circular"
    THEN <<Op("status", "", OrDefault(o.status, DefaultStatus))>>
    ELSE <<Op("status", "", OrDefault(o.status, DefaultStatus)),
           Op("json", JsonValue(o), 0)>>

\* if (response.raw): the empty string is falsy
RawFires(o) == o.raw = "bytes"

\* the calls of the first branch that fires, redirect down to JSON
TerminalCalls(o) ==
    IF o.redirect # "" THEN RedirectCall(o)
    ELSE IF o.file # "none" THEN DownloadCall(o)
    ELSE IF o.stream THEN <<Op("pipe", "stream", 0)>>
    ELSE IF RawFires(o) THEN RawCalls(o)
    ELSE IF o.static # "none" THEN StaticCalls(o)
    ELSE JsonCalls(o)

\* res.json throws while encoding the value
TerminalThrows(o) ==
    /\ o.redirect = "" /\ o.file = "none" /\ ~o.stream /\ ~RawFires(o)
    /\ o.static = "none"
    /\ JsonValue(o) = "circular"

\* the order of the earlier adapter: redirect before the headers, and the
\* cookies only after file, stream and raw had their turn
ObjectCalls_RedirectFirst(o) ==
    IF o.redirect # "" THEN RedirectCall(o)
    ELSE IF o.file # "none" \/ o.stream \/ RawFires(o)
         THEN HeaderOps(o) \o TerminalCalls(o)
         ELSE HeaderOps(o) \o CookieOps(o) \o TerminalCalls(o)

\* case 'object' for a non-null result
ObjectCalls(o) == HeaderOps(o) \o CookieOps(o) \o TerminalCalls(o)

\* the earlier adapter: only strings and numbers are sent as text
Interpret_TextForStringNumberOnly(result) ==
    CASE result.kind \in {"string", "number"} -> <<Op("send", ToText(result), 0)>>
      [] result.kind = "object" -> ObjectCalls(result.o)
      [] OTHER -> <<Op("json", "result", 0)>>

\* the switch on typeof result
Interpret(result) ==
    CASE result.kind \in {"string", "number", "boolean"} ->
            <<Op("send", ToText(result), 0)>>
      [] result.kind = "null" -> <<Op("send", "null", 0)>>
      [] result.kind = "object" -> ObjectCalls(result.o)
      [] OTHER -> <<Op("json", "result", 0)>>

InterpretThrows(result) == result.kind = "object" /\ TerminalThrows(result.o)

\* the calls the adapter makes once the handler has returned
AdapterCalls(sink, result) ==
    IF SkipResult(sink, result) THEN <<>> ELSE Interpret(result)

\* what the catch block receives: the handler's throw or the interpreter's
Caught(sink, h) ==
    CASE h.outcome = "throw" -> Err(FALSE, 0)
      [] h.outcome = "throwNullish" -> Err(TRUE, 0)
      [] ~SkipResult(sink, h.result) /\ InterpretThrows(h.result) -> Err(FALSE, 0)
      [] OTHER -> NoErr

\* catch (err) { logger.error(`... ${error.message}`); next(err); }
\* error.message on undefined or null throws inside the catch block
CatchLogs(e) == e.present /\ ~e.nullish
CatchNext(e) == e.present /\ ~e.nullish
CatchEscapes(e) == e.present /\ e.nullish

\* the effect of one call on the sink
ApplyCall(sink, c) ==
    CASE c.op = "status" -> [sink EXCEPT !.statusCode = c.code]
      [] c.op = "redirect" ->
            [sink EXCEPT !.statusCode = c.code, !.headersSent = TRUE,
                         !.ended = TRUE, !.by = "adapter"]
      [] c.op \in {"send", "json"} ->
            [sink EXCEPT !.headersSent = TRUE, !.ended = TRUE, !.by = "adapter"]
      [] OTHER -> sink

RECURSIVE ApplyCalls(_, _)
ApplyCalls(sink, cs) ==
    IF cs = <<>> THEN sink ELSE ApplyCalls(ApplyCall(sink, Head(cs)), Tail(cs))

LastOp(cs) == IF cs = <<>> THEN "" ELSE cs[Len(cs)].op

-----------------------------------------------------------------------------
(* The request pipeline: route adapter, then the host's error chain *)

\* no route load is in progress and none has happened
LoaderIdle ==
    /\ files = <<>>
    /\ imports = [c \in 1..MaxOverlap |-> <<>>]
    /\ moduleCache = {}
    /\ loadPc = [c \in 1..MaxOverlap |-> "idle"]
    /\ registered = <<>>
    /\ mounted = <<>>
    /\ count = [c \in 1..MaxOverlap |-> 0]
    /\ loadLog = {}
    /\ loads = 0
    /\ importRuns = <<>>
    /\ cacheReads = 0
    /\ cacheWrites = <<>>

LoadIdle ==
    /\ nodeEnv = "development"
    /\ LoaderIdle

Init ==
    /\ SubIdle
    /\ EnrichIdle
    /\ phase = "idle"
    /\ customHandler \in BOOLEAN
    /\ fn = NoHandler
    /\ calledWith = ""
    /\ res = FreshRes
    /\ ops = <<>>
    /\ thrown = NoErr
    /\ logged = 0
    /\ nextCalls = 0
    /\ pendingErr = NoErr
    /\ escaped = FALSE
    /\ alive = TRUE
    /\ nodeEnv \in NodeEnvs
    /\ LoaderIdle
    /\ RouteIdle
    /\ WalkIdle
    /\ MwIdle

\* the host dispatches a request to the adapter registered for its route
Request ==
    /\ alive
    /\ phase = "idle"
    /\ phase' = "handler"
    /\ \E h \in Handlers : fn' = h
    /\ UNCHANGED <<customHandler, calledWith, res, ops, thrown, logged,
                   nextCalls, pendingErr, escaped, alive>>
    /\ UNCHANGED exceptReq

\* the pipeline has nothing left to do for the request; the listening
\* server turns to the next one with a fresh request and response
Listen ==
    /\ alive
    /\ phase \in {"done", "hung"}
    /\ phase' = "idle"
    /\ fn' = NoHandler
    /\ calledWith' = ""
    /\ res' = FreshRes
    /\ ops' = <<>>
    /\ thrown' = NoErr
    /\ logged' = 0
    /\ nextCalls' = 0
    /\ pendingErr' = NoErr
    /\ escaped' = FALSE
    /\ UNCHANGED <<customHandler, alive>>
    /\ UNCHANGED exceptReq

\* the function wrapHandler returns: call fn, interpret its result, catch
WrapHandler ==
    /\ phase = "handler"
    /\ LET sink == AfterHandler(fn)
           calls == IF fn.outcome = "return"
                    THEN AdapterCalls(sink, fn.result) ELSE <<>>
           e == Caught(sink, fn)
       IN /\ calledWith' = CallArgs(fn.length)
          /\ ops' = calls
          /\ res' = ApplyCalls(sink, calls)
          /\ thrown' = e
          /\ logged' = IF CatchLogs(e) THEN 1 ELSE 0
          /\ nextCalls' = IF CatchNext(e) THEN 1 ELSE 0
          /\ pendingErr' = IF CatchNext(e) THEN e ELSE NoErr
          /\ escaped' = CatchEscapes(e)
          /\ phase' = CASE CatchEscapes(e) -> "rejected"
                         [] CatchNext(e) -> "error"
                         [] LastOp(calls) \in AsyncOps -> "transfer"
                         [] OTHER -> "done"
    /\ UNCHANGED <<customHandler, fn, alive>>
    /\ UNCHANGED exceptReq

\* res.download / stream.pipe / res.sendFile finish writing the response
TransferDone ==
    /\ phase = "transfer"
    /\ res' = [res EXCEPT !.headersSent = TRUE, !.ended = TRUE, !.by = "adapter"]
    /\ phase' = "done"
    /\ UNCHANGED <<customHandler, fn, calledWith, ops, thrown, logged,
                   nextCalls, pendingErr, escaped, alive>>
    /\ UNCHANGED exceptReq

\* res.sendFile(path) was given no callback: when the file cannot be read
\* the host passes the error (status 404 for a missing file, 500 for any
\* other failure) to next(err)
SendFileFails ==
    /\ phase = "transfer"
    /\ LastOp(ops) = "sendFile"
    /\ \E code \in {404, 500} : pendingErr' = Err(FALSE, code)
    /\ phase' = "error"
    /\ UNCHANGED <<customHandler, fn, calledWith, res, ops, thrown, logged,
                   nextCalls, escaped, alive>>
    /\ UNCHANGED exceptReq

\* an error handler answering with `status`; once headers are out its write
\* throws and the host closes the connection instead
Answer(sink, status) ==
    IF sink.headersSent
    THEN [sink EXCEPT !.aborted = ~sink.ended]
    ELSE [sink EXCEPT !.statusCode = status, !.headersSent = TRUE,
                      !.ended = TRUE, !.by = "errorHandler"]

\* { error: 'Internal Server Error',
\*   ...(process.env.NODE_ENV === 'development' && { detail: err.message }) }
DefaultErrorBody(env) ==
    IF env = "development" THEN "error,detail" ELSE "error"

\* createApp's default error handler: res.status(500).json({...})
DefaultErrorHandler ==
    /\ phase = "error"
    /\ ~customHandler
    /\ res' = IF res.headersSent
              THEN Answer(res, ErrorStatus)
              ELSE [Answer(res, ErrorStatus) EXCEPT
                        !.json = DefaultErrorBody(nodeEnv)]
    /\ pendingErr' = NoErr
    /\ phase' = "done"
    /\ UNCHANGED <<customHandler, fn, calledWith, ops, thrown, logged,
                   nextCalls, escaped, alive>>
    /\ UNCHANGED exceptReq

\* opts.expressOptions.errorHandler, as the documentation writes it:
\* err.statusCode ? res.status(err.statusCode).json(..) : res.status(500).json(..)
CustomErrorHandler ==
    /\ phase = "error"
    /\ customHandler
    /\ res' = Answer(res, OrDefault(pendingErr.statusCode, ErrorStatus))
    /\ pendingErr' = NoErr
    /\ phase' = "done"
    /\ UNCHANGED <<customHandler, fn, calledWith, ops, thrown, logged,
                   nextCalls, escaped, alive>>
    /\ UNCHANGED exceptReq

\* the adapter's promise rejected.  The host either turns the rejection
\* into next(err) itself, or drops the promise: then the request is never
\* answered and the unhandled rejection may end the process.
HostForwardsRejection ==
    /\ phase = "rejected"
    /\ pendingErr' = Err(FALSE, 0)
    /\ phase' = "error"
    /\ UNCHANGED <<customHandler, fn, calledWith, res, ops, thrown, logged,
                   nextCalls, escaped, alive>>
    /\ UNCHANGED exceptReq

HostDropsRejection ==
    /\ phase = "rejected"
    /\ phase' = "hung"
    /\ alive' \in BOOLEAN
    /\ UNCHANGED <<customHandler, fn, calledWith, res, ops, thrown, logged,
                   nextCalls, pendingErr, escaped>>
    /\ UNCHANGED exceptReq

Next ==
    \/ Request
    \/ Listen
    \/ WrapHandler
    \/ TransferDone
    \/ SendFileFails
    \/ DefaultErrorHandler
    \/ CustomErrorHandler
    \/ HostForwardsRejection
    \/ HostDropsRejection

Spec == Init /\ [][Next]_vars

-----------------------------------------------------------------------------
(* loadApiRoutes: src/dist/router.js 332-396 *)

\* route files of one load
MaxFiles == 3
\* calls of loadApiRoutes in one process
MaxLoads == 2
\* route files of a load that overlaps another
MaxOverlapFiles == 2

HTTP_METHODS == <<"GET", "POST", "PUT", "DELETE", "PATCH", "OPTIONS", "HEAD">>

DirName(i) == <<"users", "posts", "tags", "items", "notes">>[i]

\* What a discovered file is and does when imported.
\*   name    : its file name
\*   eval    : "ok" | "throw" (evaluation throws an Error) | "throwNullish"
\*             (evaluation throws undefined or null)
\*   exports : the names the module exports
FileKinds ==
    {[name |-> "route.ts", eval |-> "ok", exports |-> {"GET"}],
     [name |-> "route.ts", eval |-> "ok", exports |-> {"GET", "POST", "default"}],
     [name |-> "route.ts", eval |-> "ok", exports |-> {"helper"}],
     [name |-> "route.ts", eval |-> "ok", exports |-> {"GET", "error"}],
     [name |-> "util.ts", eval |-> "ok", exports |-> {"GET"}],
     [name |-> "route.ts", eval |-> "throw", exports |-> {}],
     [name |-> "route.ts", eval |-> "throwNullish", exports |-> {}]}

FileAt(i, k) ==
    [dir |-> DirName(i), name |-> k.name, eval |-> k.eval, exports |-> k.exports]

\* the lists collectFiles can return: one file per directory
FileLists ==
    UNION {{[i \in 1..n |-> FileAt(i, ks[i])] : ks \in [1..n -> FileKinds]} :
             n \in 0..MaxFiles}

FilePath(f) == f.dir \o "/" \o f.name

\* filePathToRoute with baseRoute "/api": "" stands for null
FilePathToRoute(f) ==
    IF f.name \in {"route.ts", "route.js"} THEN "/api/" \o f.dir ELSE ""

\* a loader that never consults the module cache
Submit_NeverCached(env, cache, f) == "pending"

\* the async callback of files.map up to its first await: in production a
\* cached module is returned at once, otherwise the import is pending
Submit(env, cache, f) ==
    IF env = "production" /\ FilePath(f) \in cache THEN "fulfilled" ELSE "pending"

\* the callback after its import settled: the module, or the catch block,
\* whose error.message throws when the module threw undefined or null
Settle(f) ==
    CASE f.eval = "ok" -> "fulfilled"
      [] f.eval = "throw" -> "failed"
      [] OTHER -> "rejected"

\* if (!module || module.error) continue; if (!route) continue;
Skipped(state, f) ==
    state # "fulfilled" \/ "error" \in f.exports \/ FilePathToRoute(f) = ""

Registration(f, method, export) ==
    [method |-> method, route |-> FilePathToRoute(f), export |-> export]

\* the registrations of one module: its method exports in HTTP_METHODS
\* order, then the default export as GET
ModuleRegistrations(f) ==
    LET named == SelectSeq(HTTP_METHODS, LAMBDA m : m \in f.exports)
    IN [i \in 1..Len(named) |-> Registration(f, named[i], named[i])]
       \o (IF "default" \in f.exports
           THEN <<Registration(f, "GET", "default")>> ELSE <<>>)

\* the loop over the loaded modules, from index i on
RECURSIVE RegisterFrom(_, _, _)
RegisterFrom(i, fs, states) ==
    IF i > Len(fs) THEN <<>>
    ELSE (IF Skipped(states[i], fs[i]) THEN <<>> ELSE ModuleRegistrations(fs[i]))
         \o RegisterFrom(i + 1, fs, states)

\* a loop that mounts the sub-router of every module it did not skip
RECURSIVE MountFrom_Unconditional(_, _, _)
MountFrom_Unconditional(i, fs, states) ==
    IF i > Len(fs) THEN <<>>
    ELSE (IF Skipped(states[i], fs[i])
          THEN <<>> ELSE <<FilePathToRoute(fs[i])>>)
         \o MountFrom_Unconditional(i + 1, fs, states)

\* app.use(route, routeRouter) for every module with hasRoutes
RECURSIVE MountFrom(_, _, _)
MountFrom(i, fs, states) ==
    IF i > Len(fs) THEN <<>>
    ELSE (IF Skipped(states[i], fs[i]) \/ ModuleRegistrations(fs[i]) = <<>>
          THEN <<>> ELSE <<FilePathToRoute(fs[i])>>)
         \o MountFrom(i + 1, fs, states)

\* the request pipeline is at rest
ReqIdle ==
    /\ phase = "idle"
    /\ customHandler = FALSE
    /\ fn = NoHandler
    /\ calledWith = ""
    /\ res = FreshRes
    /\ ops = <<>>
    /\ thrown = NoErr
    /\ logged = 0
    /\ nextCalls = 0
    /\ pendingErr = NoErr
    /\ escaped = FALSE
    /\ alive = TRUE

\* the process before its first loadApiRoutes call, over the file list fs
LoadStart(fs) ==
    /\ nodeEnv \in {"production", "development"}
    /\ files = fs
    /\ imports = [c \in 1..MaxOverlap |-> <<>>]
    /\ moduleCache = {}
    /\ loadPc = [c \in 1..MaxOverlap |-> "idle"]
    /\ registered = <<>>
    /\ mounted = <<>>
    /\ count = [c \in 1..MaxOverlap |-> 0]
    /\ loadLog = {}
    /\ loads = 0
    /\ importRuns = [i \in 1..Len(fs) |-> 0]
    /\ cacheReads = 0
    /\ cacheWrites = [i \in 1..Len(fs) |-> 0]

LoadInit ==
    /\ SubIdle
    /\ EnrichIdle
    /\ ReqIdle
    /\ RouteIdle
    /\ WalkIdle
    /\ MwIdle
    /\ \E fs \in FileLists : LoadStart(fs)

\* moduleCache.has(file) is evaluated only behind the production test
HasCalls(env, fs) == IF env = "production" THEN Len(fs) ELSE 0

\* invocation c of loadApiRoutes up to `await Promise.all(modulePromises)`:
\* every callback of files.map runs up to its first await
LoadApiRoutes(c) ==
    /\ loadPc[c] \in {"idle", "done"}
    /\ c > 1 => loadPc[c - 1] = "awaiting"
    /\ loads < MaxLoads
    /\ loads' = loads + 1
    /\ imports' = [imports EXCEPT ![c] =
                      [i \in 1..Len(files) |-> Submit(nodeEnv, moduleCache, files[i])]]
    /\ importRuns' =
          [i \in 1..Len(files) |->
              IF Submit(nodeEnv, moduleCache, files[i]) = "pending"
              THEN importRuns[i] + 1 ELSE importRuns[i]]
    /\ cacheReads' = cacheReads + HasCalls(nodeEnv, files)
    /\ count' = [count EXCEPT ![c] = 0]
    /\ loadPc' = [loadPc EXCEPT ![c] = "awaiting"]
    /\ UNCHANGED <<nodeEnv, files, moduleCache, registered, mounted, loadLog,
                   cacheWrites>>
    /\ UNCHANGED exceptLoad

\* if (process.env.NODE_ENV === 'production') moduleCache.set(file, module)
CacheSet(env, f) == Settle(f) = "fulfilled" /\ env = "production"

\* the import of file i of invocation c settles and its callback runs to
\* the end
ImportSettles(c, i) ==
    /\ i \in 1..Len(imports[c])
    /\ imports[c][i] = "pending"
    /\ imports' = [imports EXCEPT ![c][i] = Settle(files[i])]
    /\ moduleCache' =
          IF CacheSet(nodeEnv, files[i])
          THEN moduleCache \cup {FilePath(files[i])} ELSE moduleCache
    /\ cacheWrites' =
          IF CacheSet(nodeEnv, files[i])
          THEN [cacheWrites EXCEPT ![i] = @ + 1] ELSE cacheWrites
    /\ loadLog' =
          IF Settle(files[i]) = "failed"
          THEN loadLog \cup {FilePath(files[i])} ELSE loadLog
    /\ UNCHANGED <<nodeEnv, files, loadPc, registered, mounted, count, loads,
                   importRuns, cacheReads>>
    /\ UNCHANGED exceptLoad

\* one of the promises rejected: Promise.all rejects, the await throws and
\* loadApiRoutes rejects to createApp
LoadRejects(c) ==
    /\ loadPc[c] = "awaiting"
    /\ \E i \in 1..Len(imports[c]) : imports[c][i] = "rejected"
    /\ loadPc' = [loadPc EXCEPT ![c] = "rejected"]
    /\ UNCHANGED <<nodeEnv, files, imports, moduleCache, registered, mounted,
                   count, loadLog, loads, importRuns, cacheReads, cacheWrites>>
    /\ UNCHANGED exceptLoad

\* every promise is fulfilled: the registration loop runs and the count is
\* returned
RegisterRoutes(c) ==
    /\ loadPc[c] = "awaiting"
    /\ \A i \in 1..Len(imports[c]) : imports[c][i] \in {"fulfilled", "failed"}
    /\ registered' = registered \o RegisterFrom(1, files, imports[c])
    /\ mounted' = mounted \o MountFrom(1, files, imports[c])
    /\ count' = [count EXCEPT ![c] = Len(RegisterFrom(1, files, imports[c]))]
    /\ loadPc' = [loadPc EXCEPT ![c] = "done"]
    /\ UNCHANGED <<nodeEnv, files, imports, moduleCache, loadLog, loads,
                   importRuns, cacheReads, cacheWrites>>
    /\ UNCHANGED exceptLoad

\* one process calling loadApiRoutes again only after the previous call
\* has returned
LoadNext ==
    \/ LoadApiRoutes(1)
    \/ \E i \in 1..MaxFiles : ImportSettles(1, i)
    \/ LoadRejects(1)
    \/ RegisterRoutes(1)

LoadSpec == LoadInit /\ [][LoadNext]_vars

\* loadApiRoutes is an exported async function: a caller may invoke it
\* again while an earlier invocation is still awaiting its imports
OverlapInit ==
    /\ SubIdle
    /\ EnrichIdle
    /\ ReqIdle
    /\ RouteIdle
    /\ WalkIdle
    /\ MwIdle
    /\ \E fs \in FileLists : Len(fs) <= MaxOverlapFiles /\ LoadStart(fs)

OverlapNext ==
    \/ \E c \in 1..MaxOverlap : LoadApiRoutes(c)
    \/ \E c \in 1..MaxOverlap : \E i \in 1..MaxFiles : ImportSettles(c, i)
    \/ \E c \in 1..MaxOverlap : LoadRejects(c)
    \/ \E c \in 1..MaxOverlap : RegisterRoutes(c)

OverlapSpec == OverlapInit /\ [][OverlapNext]_vars

-----------------------------------------------------------------------------
(* filePathToRoute: src/dist/router.js 207-230 *)

\* folders between the routes root and a file
MaxDepth == 2
\* calls of filePathToRoute in one process
MaxCalls == 3

\* Text that the code takes apart is a sequence of characters.
\* Folder names: users, posts, [id], [slug]
FolderNames ==
    {<<"u", "s", "e", "r", "s">>, <<"p", "o", "s", "t", "s">>,
     <<"[", "i", "d", "]">>, <<"[", "s", "l", "u", "g", "]">>}

\* path.relative(apiDir, filePath).split(path.sep) without the file name
FolderPaths == UNION {[1..n -> FolderNames] : n \in 0..MaxDepth}

FileNames == {"route.ts", "route.js", "index.ts"}

RouteFiles == [parts : FolderPaths, filename : FileNames]

\* the baseRoute values: /api, /api/v1, /api/, / and the empty string
BaseRoutes ==
    {<<"/", "a", "p", "i">>, <<"/", "a", "p", "i", "/", "v", "1">>,
     <<"/", "a", "p", "i", "/">>, <<"/">>, <<>>}

NullRoute == [isNull |-> TRUE, text |-> <<>>]
RouteText(t) == [isNull |-> FALSE, text |-> t]

\* s.startsWith(c), s.endsWith(c), s.slice(1, -1)
StartsWith(s, c) == Len(s) >= 1 /\ s[1] = c
EndsWith(s, c) == Len(s) >= 1 /\ s[Len(s)] = c
Slice(s) == SubSeq(s, 2, Len(s) - 1)

\* a conversion that leaves bracketed folders as they are
Segment_KeepsBrackets(s) == s

\* s.startsWith('[') && s.endsWith(']') ? `:${s.slice(1, -1)}` : s
Segment(s) ==
    IF StartsWith(s, "[") /\ EndsWith(s, "]") THEN <<":">> \o Slice(s) ELSE s

\* segments.join('/')
RECURSIVE Join(_)
Join(segs) ==
    IF segs = <<>> THEN <<>>
    ELSE IF Len(segs) = 1 THEN segs[1]
    ELSE segs[1] \o <<"/">> \o Join(Tail(segs))

\* .replace(/\/+/g, '/')
RECURSIVE CollapseSlashes(_)
CollapseSlashes(t) ==
    IF Len(t) < 2 THEN t
    ELSE IF t[1] = "/" /\ t[2] = "/" THEN CollapseSlashes(Tail(t))
    ELSE <<t[1]>> \o CollapseSlashes(Tail(t))

\* the computation behind the cache: null for anything but route.ts and
\* route.js, else the base, a slash and the converted folders
ComputeRoute(f, base) ==
    IF f.filename \notin {"route.ts", "route.js"} THEN NullRoute
    ELSE RouteText(CollapseSlashes(
            base \o <<"/">> \o Join([i \in 1..Len(f.parts) |-> Segment(f.parts[i])])))

\* const key = `${apiDir}:${filePath}`
RouteKey(f) == <<f.parts, f.filename>>

RouteInit ==
    /\ SubIdle
    /\ EnrichIdle
    /\ ReqIdle
    /\ LoadIdle
    /\ WalkIdle
    /\ MwIdle
    /\ routeCache = <<>>
    /\ routeFile \in RouteFiles
    /\ baseRoute = <<>>
    /\ route = NullRoute
    /\ routeCalls = 0

\* one call filePathToRoute(apiDir, filePath, baseRoute)
FilePathToRouteCall ==
    /\ routeCalls < MaxCalls
    /\ routeCalls' = routeCalls + 1
    /\ \E b \in BaseRoutes : baseRoute' = b
    /\ IF RouteKey(routeFile) \in DOMAIN routeCache
       THEN /\ route' = routeCache[RouteKey(routeFile)]
            /\ UNCHANGED routeCache
       ELSE /\ route' = ComputeRoute(routeFile, baseRoute')
            /\ routeCache' =
                  [k \in DOMAIN routeCache \cup {RouteKey(routeFile)} |->
                      IF k = RouteKey(routeFile)
                      THEN ComputeRoute(routeFile, baseRoute') ELSE routeCache[k]]
    /\ UNCHANGED routeFile
    /\ UNCHANGED exceptRoute

RouteNext == FilePathToRouteCall

RouteSpec == RouteInit /\ [][RouteNext]_vars

-----------------------------------------------------------------------------
(* collectFiles: src/dist/router.js 232-256 *)

\* subdirectories of the root
MaxWidth == 20
\* directories nested one inside the other below the first subdirectory
MaxChain == 20

\* const maxDepth = 20
maxDepth == 20

\* A directory is the sequence of child numbers leading to it from the
\* root.  A tree has `width` subdirectories under the root and a chain of
\* `chain` directories nested below the first of them; subdirectory `bad`
\* (0: none) cannot be read.
Trees ==
    {t \in [width : 0..MaxWidth, chain : 0..MaxChain, bad : 0..2] :
        /\ t.bad <= t.width
        /\ t.chain > 0 => t.width > 0}

\* the names every directory of the tree holds besides its subdirectories:
\* route.ts, util.js, a.mts, b.mjs, c.tsx, d.json, README.md
EntryNames ==
    <<(<<"r", "o", "u", "t", "e", ".", "t", "s">>),
      (<<"u", "t", "i", "l", ".", "j", "s">>),
      (<<"a", ".", "m", "t", "s">>),
      (<<"b", ".", "m", "j", "s">>),
      (<<"c", ".", "t", "s", "x">>),
      (<<"d", ".", "j", "s", "o", "n">>),
      (<<"R", "E", "A", "D", "M", "E", ".", "m", "d">>)>>

OnChain(d) == \A j \in 1..Len(d) : d[j] = 1

\* the entries of `current` for which it.isDirectory() holds, in order
SubDirs(t, current) ==
    IF current = <<>> THEN [i \in 1..t.width |-> <<i>>]
    ELSE IF OnChain(current) /\ Len(current) <= t.chain
         THEN <<Append(current, 1)>>
         ELSE <<>>

\* fs.readdirSync(current) throws
Unreadable(t, current) == t.bad > 0 /\ current = <<t.bad>>

HasSuffix(name, suffix) ==
    /\ Len(name) >= Len(suffix)
    /\ SubSeq(name, Len(name) - Len(suffix) + 1, Len(name)) = suffix

\* /\.(ts|js|mts|mjs)$/.test(it.name)
IsSource(name) ==
    \/ HasSuffix(name, <<".", "t", "s">>)
    \/ HasSuffix(name, <<".", "j", "s">>)
    \/ HasSuffix(name, <<".", "m", "t", "s">>)
    \/ HasSuffix(name, <<".", "m", "j", "s">>)

Reverse(xs) == [i \in 1..Len(xs) |-> xs[Len(xs) + 1 - i]]

\* path.join(current, it.name) for the entries that pass the test, in the
\* order of the loop: from the last entry to the first
SourcesOf(current) ==
    LET kept == SelectSeq(Reverse(EntryNames), IsSource)
    IN [i \in 1..Len(kept) |-> [dir |-> current, name |-> kept[i]]]

WalkInit ==
    /\ SubIdle
    /\ EnrichIdle
    /\ ReqIdle
    /\ LoadIdle
    /\ RouteIdle
    /\ MwIdle
    /\ tree \in Trees
    /\ stack = <<>>
    /\ walkResult = <<>>
    /\ warned = {}
    /\ walkPc = "idle"

\* collectFiles(dir): const result = []; const stack = [dir]
CollectFiles ==
    /\ walkPc = "idle"
    /\ stack' = << <<>> >>
    /\ walkResult' = <<>>
    /\ walkPc' = "walking"
    /\ UNCHANGED <<tree, warned>>
    /\ UNCHANGED exceptWalk

\* one turn of while (stack.length > 0 && stack.length < maxDepth)
WalkStep ==
    /\ walkPc = "walking"
    /\ Len(stack) > 0 /\ Len(stack) < maxDepth
    /\ LET current == stack[Len(stack)]
           rest == SubSeq(stack, 1, Len(stack) - 1)
       IN IF Unreadable(tree, current)
          THEN /\ warned' = warned \cup {current}
               /\ stack' = rest
               /\ UNCHANGED walkResult
          ELSE /\ stack' = rest \o Reverse(SubDirs(tree, current))
               /\ walkResult' = walkResult \o SourcesOf(current)
               /\ UNCHANGED warned
    /\ UNCHANGED <<tree, walkPc>>
    /\ UNCHANGED exceptWalk

\* the loop condition fails: return result
WalkReturn ==
    /\ walkPc = "walking"
    /\ ~(Len(stack) > 0 /\ Len(stack) < maxDepth)
    /\ walkPc' = "returned"
    /\ UNCHANGED <<tree, stack, walkResult, warned>>
    /\ UNCHANGED exceptWalk

WalkNext ==
    \/ CollectFiles
    \/ WalkStep
    \/ WalkReturn

WalkSpec == WalkInit /\ [][WalkNext]_vars

-----------------------------------------------------------------------------
(* createMiddleware and wrapMiddleware: src/src/middleware.ts 68-78,        *)
(* src/src/utils/wrapMiddleware.ts 82-95, attached by createApp             *)
(* (src/unnamed/part_022 204-270)                                           *)

\* middlewares listed for one prefix
MaxMiddlewares == 2

\* What a middleware does when it is called:
\*   "next"      calls next() and returns
\*   "asyncNext" awaits something, then calls next()
\*   "end"       sends a response and returns without calling next
\*   "hang"      returns without calling next and without a response
\*   "throw"     throws an Error before its first await
\*   "reject"    returns a promise that rejects with an Error
MwKinds == {"next", "asyncNext", "end", "hang", "throw", "reject"}

\*   "nextThenThrow"   calls next() and throws once next() has returned
\*   "nextThenReject"  calls next(), awaits, and then rejects
WrapKinds == MwKinds \cup {"nextThenThrow", "nextThenReject"}

MwLists == UNION {[1..n -> MwKinds] : n \in 0..MaxMiddlewares}

\* A path is the sequence of its segments.  The map has the prefixes /api
\* and /api/users, in the order Object.entries gives them.
MwMaps ==
    {<<[route |-> <<"api">>, middlewares |-> a],
       [route |-> <<"api", "users">>, middlewares |-> b]>> :
        a \in MwLists, b \in MwLists}

\* the paths requests arrive for
RequestPaths ==
    {<<"api", "users">>, <<"api", "posts">>, <<"api", "other">>, <<"health">>,
     <<"other">>}

Layer(kind, prefix, index, does) ==
    [kind |-> kind, route |-> prefix, index |-> index, does |-> does]

\* an attachment that goes through each list from its end
MiddlewareLayers_Reversed(map) ==
    LET of(e) == [i \in 1..Len(e.middlewares) |->
                    Layer("middleware", e.route, Len(e.middlewares) + 1 - i,
                          e.middlewares[Len(e.middlewares) + 1 - i])]
    IN of(map[1]) \o of(map[2])

\* for (const [route, middlewares] of Object.entries(map))
\*   for (const mw of middlewares) app.use(route, wrapMiddleware(mw))
MiddlewareLayers(map) ==
    LET of(e) == [i \in 1..Len(e.middlewares) |->
                    Layer("middleware", e.route, i, e.middlewares[i])]
    IN of(map[1]) \o of(map[2])

\* app.get('/health', ..) and the sub-routers loadApiRoutes mounts
RouteLayers ==
    <<Layer("route", <<"health">>, 0, "end"),
      Layer("route", <<"api", "users">>, 0, "end"),
      Layer("route", <<"api", "posts">>, 0, "end")>>

\* the error handler and the 404 handler
TailLayers ==
    <<Layer("errorHandler", <<>>, 0, "end"), Layer("notFound", <<>>, 0, "end")>>

\* the path lies under the prefix
Under(path, prefix) ==
    Len(path) >= Len(prefix) /\ SubSeq(path, 1, Len(prefix)) = prefix

\* a middleware attached through wrapMiddleware ("middleware"), or attached
\* as it is by loadFastayMiddlewares ("auto") or from
\* expressOptions.middlewares ("global")
IsMiddleware(layer) == layer.kind \in {"middleware", "auto", "global"}

Wrapped(layer) == layer.kind = "middleware"

\* the host hands the request (or the error) to the layer
Matches(layer, path, err) ==
    CASE IsMiddleware(layer) -> ~err /\ Under(path, layer.route)
      [] layer.kind = "route" -> ~err /\ path = layer.route
      [] layer.kind = "errorHandler" -> err
      [] OTHER -> ~err

\* the first layer from position `from` on that the host calls: 0 if none
NextLayer(layers, from, path, err) ==
    LET hits == {k \in from..Len(layers) : Matches(layers[k], path, err)}
    IN IF hits = {} THEN 0 ELSE CHOOSE k \in hits : \A h \in hits : k <= h

\* a wrapper that returns mw(req, res, next) without awaiting it
WrapperCatches_SyncOnly(does) == does = "throw"

\* try { await mw(req, res, next) } catch (err) { ...; next(err) }
WrapperCatches(does) == does \in {"throw", "reject"}

MwInit ==
    /\ SubIdle
    /\ EnrichIdle
    /\ ReqIdle
    /\ LoadIdle
    /\ RouteIdle
    /\ WalkIdle
    /\ mwMap \in MwMaps
    /\ appStack = <<>>
    /\ bootPc = "start"
    /\ reqPath = <<>>
    /\ layerPos = 0
    /\ ran = <<>>
    /\ mwPhase = "idle"
    /\ mwErr = FALSE
    /\ mwNextCalls = 0
    /\ mwNextArg = "none"
    /\ mwLogged = 0
    /\ mwEscaped = FALSE
    /\ endedBy = "nobody"
    /\ build = "part_022"
    /\ bootAt = 1
    /\ listening = FALSE
    /\ autoMap = <<>>
    /\ globals = <<>>
    /\ nextBy = <<>>
    /\ unwinding = <<>>
    /\ mwReply = [status |-> 0]

\* createMiddleware(opts.middlewares)(app)
ApplyMiddleware ==
    /\ bootPc = "start"
    /\ appStack' = appStack \o MiddlewareLayers(mwMap)
    /\ bootPc' = "middlewares"
    /\ UNCHANGED <<mwMap, reqPath, layerPos, ran, mwPhase, mwErr, mwNextCalls,
                   mwNextArg, mwLogged, mwEscaped, endedBy>>
    /\ UNCHANGED <<bootVars, nextBy, unwinding, mwReply>>
    /\ UNCHANGED exceptMw

\* the health route, the loaded routes, the error handler, the 404 handler
MountRoutes ==
    /\ bootPc = "middlewares"
    /\ appStack' = appStack \o RouteLayers \o TailLayers
    /\ bootPc' = "routes"
    /\ UNCHANGED <<mwMap, reqPath, layerPos, ran, mwPhase, mwErr, mwNextCalls,
                   mwNextArg, mwLogged, mwEscaped, endedBy>>
    /\ UNCHANGED <<bootVars, nextBy, unwinding, mwReply>>
    /\ UNCHANGED exceptMw

\* server.listen(port)
ServerListen ==
    /\ bootPc = "routes"
    /\ bootPc' = "listening"
    /\ UNCHANGED <<mwMap, appStack, reqPath, layerPos, ran, mwPhase, mwErr,
                   mwNextCalls, mwNextArg, mwLogged, mwEscaped, endedBy>>
    /\ UNCHANGED <<bootVars, nextBy, unwinding, mwReply>>
    /\ UNCHANGED exceptMw

\* a request arrives and the host starts at the top of the stack
Dispatch ==
    /\ bootPc = "listening"
    /\ mwPhase = "idle"
    /\ \E p \in RequestPaths : reqPath' = p
    /\ layerPos' = 1
    /\ mwPhase' = "dispatch"
    /\ UNCHANGED <<mwMap, appStack, bootPc, ran, mwErr, mwNextCalls, mwNextArg,
                   mwLogged, mwEscaped, endedBy>>
    /\ UNCHANGED <<bootVars, nextBy, unwinding, mwReply>>
    /\ UNCHANGED exceptMw

\* the catch block of the wrapper: logger.error(..); next(err)
WrapperForwards(k) ==
    /\ mwLogged' = 1
    /\ mwNextCalls' = 1
    /\ mwNextArg' = "error"
    /\ mwErr' = TRUE
    /\ layerPos' = k + 1
    /\ mwPhase' = "dispatch"
    /\ UNCHANGED <<mwEscaped, endedBy>>

\* the throw or the rejection leaves the wrapper
WrapperRejects(k) ==
    /\ mwEscaped' = TRUE
    /\ layerPos' = k
    /\ mwPhase' = "hung"
    /\ UNCHANGED <<mwErr, mwNextCalls, mwNextArg, mwLogged, endedBy>>

\* the host's own try/catch around a layer: next(err)
HostCatches(k) ==
    /\ mwNextCalls' = 1
    /\ mwNextArg' = "error"
    /\ mwErr' = TRUE
    /\ layerPos' = k + 1
    /\ mwPhase' = "dispatch"
    /\ UNCHANGED <<mwLogged, mwEscaped, endedBy>>

\* The middleware at layer k failed (how: "throw" before its first await,
\* "reject" after it).  The wrapper of wrapMiddleware awaits the middleware
\* inside try/catch.  A middleware attached without it has a throw caught by
\* the host; its rejected promise is forwarded by a host that awaits the
\* handler and dropped by one that does not.
FailsAt(k, layer, how) ==
    IF Wrapped(layer)
    THEN IF WrapperCatches(how) THEN WrapperForwards(k) ELSE WrapperRejects(k)
    ELSE IF how = "throw"
         THEN HostCatches(k)
         ELSE WrapperRejects(k) \/ HostCatches(k)

\* the middleware called next()
Continues(k) ==
    /\ mwNextCalls' = 1
    /\ mwNextArg' = "nothing"
    /\ layerPos' = k + 1
    /\ mwPhase' = "dispatch"
    /\ UNCHANGED <<mwErr, mwLogged, mwEscaped, endedBy>>

\* a 404 handler that leaves the answer to the host's default page
ReplyOf_HostDefault(layer, path, err) ==
    IF layer.kind = "errorHandler"
    THEN [status |-> ErrorStatus, error |-> "Internal Server Error"]
    ELSE [status |-> DefaultStatus]

\* res.status(..).json(..) of the layer that ends the response; a write
\* after the response was sent changes nothing
ReplyOf(layer, path, err) ==
    CASE layer.kind = "notFound" ->
            [status |-> NotFoundStatus, error |-> "Not Found", path |-> path]
      [] layer.kind = "errorHandler" ->
            [status |-> ErrorStatus, error |-> "Internal Server Error"]
      [] OTHER -> [status |-> DefaultStatus]

\* the host calls the next layer that matches the request
RunLayer ==
    /\ mwPhase = "dispatch"
    /\ LET k == NextLayer(appStack, layerPos, reqPath, mwErr)
           layer == appStack[k]
       IN /\ k > 0
          /\ IF IsMiddleware(layer)
             THEN /\ ran' = Append(ran, layer)
                  /\ CASE layer.does = "next" ->
                              /\ Continues(k)
                              /\ nextBy' = Append(nextBy, 1)
                              /\ UNCHANGED <<unwinding, mwReply>>
                        [] layer.does \in {"nextThenThrow", "nextThenReject"} ->
                              /\ Continues(k)
                              /\ nextBy' = Append(nextBy, 1)
                              /\ unwinding' = Append(unwinding, Len(ran) + 1)
                              /\ UNCHANGED mwReply
                        [] layer.does = "end" ->
                              /\ endedBy' = "middleware"
                              /\ mwReply' = ReplyOf(layer, reqPath, mwErr)
                              /\ mwPhase' = "done"
                              /\ mwNextCalls' = 0 /\ mwNextArg' = "none"
                              /\ layerPos' = k
                              /\ nextBy' = Append(nextBy, 0)
                              /\ UNCHANGED <<mwErr, mwLogged, mwEscaped, unwinding>>
                        [] layer.does = "hang" ->
                              /\ mwPhase' = "hung"
                              /\ mwNextCalls' = 0 /\ mwNextArg' = "none"
                              /\ layerPos' = k
                              /\ nextBy' = Append(nextBy, 0)
                              /\ UNCHANGED <<mwErr, mwLogged, mwEscaped, endedBy,
                                             unwinding, mwReply>>
                        [] layer.does = "throw" ->
                              /\ FailsAt(k, layer, "throw")
                              /\ nextBy' = Append(nextBy, IF mwErr' THEN 1 ELSE 0)
                              /\ UNCHANGED <<unwinding, mwReply>>
                        [] OTHER ->
                              /\ mwPhase' = "awaiting"
                              /\ mwNextCalls' = 0 /\ mwNextArg' = "none"
                              /\ layerPos' = k
                              /\ nextBy' = Append(nextBy, 0)
                              /\ UNCHANGED <<mwErr, mwLogged, mwEscaped, endedBy,
                                             unwinding, mwReply>>
             ELSE /\ ran' = IF layer.kind = "route" THEN Append(ran, layer) ELSE ran
                  /\ nextBy' = IF layer.kind = "route" THEN Append(nextBy, 0)
                                                       ELSE nextBy
                  /\ endedBy' = IF endedBy = "nobody" THEN layer.kind ELSE endedBy
                  /\ mwReply' = IF endedBy = "nobody"
                                THEN ReplyOf(layer, reqPath, mwErr) ELSE mwReply
                  /\ mwPhase' = "done"
                  /\ layerPos' = k
                  /\ UNCHANGED <<mwErr, mwNextCalls, mwNextArg, mwLogged,
                                 mwEscaped, unwinding>>
    /\ UNCHANGED <<mwMap, appStack, bootPc, reqPath, bootVars>>
    /\ UNCHANGED exceptMw

\* the promise of the middleware that is awaited settles
MiddlewareSettles ==
    /\ mwPhase = "awaiting"
    /\ IF appStack[layerPos].does = "asyncNext"
       THEN /\ Continues(layerPos)
            /\ nextBy' = [nextBy EXCEPT ![Len(ran)] = @ + 1]
       ELSE /\ FailsAt(layerPos, appStack[layerPos], "reject")
            /\ nextBy' = [nextBy EXCEPT ![Len(ran)] = IF mwErr' THEN @ + 1 ELSE @]
    /\ UNCHANGED <<mwMap, appStack, bootPc, reqPath, ran, bootVars, unwinding,
                   mwReply>>
    /\ UNCHANGED exceptMw

MwNext ==
    \/ ApplyMiddleware
    \/ MountRoutes
    \/ ServerListen
    \/ Dispatch
    \/ RunLayer
    \/ MiddlewareSettles

MwSpec == MwInit /\ [][MwNext]_vars

-----------------------------------------------------------------------------
(* createApp, statement by statement: src/unnamed/part_022 109-283 and      *)
(* src/unnamed/part_020 259-460 (compiled: src/dist/app.js 442-598)         *)

\* the createApp sources an application can be built from
Builds == {"part_022", "part_020"}

\* the statements of createApp that attach layers or open the port, in
\* program order
BootSteps(b) ==
    IF b = "part_022"
    THEN <<"globals", "createMiddleware", "loadFastayMiddlewares", "health",
           "loadApiRoutes", "errorHandler", "notFound", "listen">>
    ELSE <<"globals", "listen", "createMiddleware", "loadFastayMiddlewares",
           "health", "globals", "createMiddleware", "loadFastayMiddlewares",
           "loadApiRoutes", "errorHandler", "notFound">>

\* a map with one prefix in use
MapOf(list) ==
    <<[route |-> <<"api">>, middlewares |-> list],
      [route |-> <<"api", "users">>, middlewares |-> <<>>]>>

\* where the application's middlewares come from: opts.middlewares, the
\* exported map of the middlewares module, expressOptions.middlewares
Sources == {"opts", "auto", "global"}

BootLists == UNION {[1..n -> WrapKinds] : n \in 0..MaxMiddlewares}

\* for (const [route, middlewares] of Object.entries(map))
\*   for (const mw of middlewares) app.use(route, mw)
AutoLayers(map) ==
    LET of(e) == [i \in 1..Len(e.middlewares) |->
                    Layer("auto", e.route, i, e.middlewares[i])]
    IN of(map[1]) \o of(map[2])

\* for (const middleware of expressOpts.middlewares) app.use(middleware)
GlobalLayers(list) ==
    [i \in 1..Len(list) |-> Layer("global", <<>>, i, list[i])]

\* what one statement of createApp appends to the application's stack
Attached(step) ==
    CASE step = "globals" -> GlobalLayers(globals)
      [] step = "createMiddleware" ->
            IF mwMap = <<>> THEN <<>> ELSE MiddlewareLayers(mwMap)
      [] step = "loadFastayMiddlewares" ->
            IF autoMap = <<>> THEN <<>> ELSE AutoLayers(autoMap)
      [] step = "health" -> SubSeq(RouteLayers, 1, 1)
      [] step = "loadApiRoutes" -> SubSeq(RouteLayers, 2, Len(RouteLayers))
      [] step = "errorHandler" -> SubSeq(TailLayers, 1, 1)
      [] step = "notFound" -> SubSeq(TailLayers, 2, 2)
      [] OTHER -> <<>>

\* createApp is suspended at this statement until file input arrives:
\* `await loadApiRoutes(..)` imports the route files, and
\* `await loadFastayMiddlewares(app)` imports the middlewares module when
\* the file exists
Yields(step) ==
    \/ step = "loadApiRoutes"
    \/ step = "loadFastayMiddlewares" /\ autoMap # <<>>

\* createApp runs from statement `at` until it is suspended or returns
RECURSIVE BootRun(_, _, _, _)
BootRun(b, at, layers, open) ==
    IF at > Len(BootSteps(b))
    THEN [at |-> at, stack |-> layers, listening |-> open]
    ELSE LET step == BootSteps(b)[at]
             layers2 == layers \o Attached(step)
             open2 == open \/ step = "listen"
         IN IF at < Len(BootSteps(b)) /\ Yields(BootSteps(b)[at + 1])
            THEN [at |-> at + 1, stack |-> layers2, listening |-> open2]
            ELSE BootRun(b, at + 1, layers2, open2)

\* createApp has returned
Booted == bootAt > Len(BootSteps(build))

BootInit ==
    /\ SubIdle
    /\ EnrichIdle
    /\ ReqIdle
    /\ LoadIdle
    /\ RouteIdle
    /\ WalkIdle
    /\ build \in Builds
    /\ \E list \in BootLists, source \in Sources :
          /\ mwMap = (IF source = "opts" THEN MapOf(list) ELSE <<>>)
          /\ autoMap = (IF source = "auto" THEN MapOf(list) ELSE <<>>)
          /\ globals = (IF source = "global" THEN list ELSE <<>>)
    /\ appStack = <<>>
    /\ bootPc = "start"
    /\ bootAt = 1
    /\ listening = FALSE
    /\ reqPath = <<>>
    /\ layerPos = 0
    /\ ran = <<>>
    /\ mwPhase = "idle"
    /\ mwErr = FALSE
    /\ mwNextCalls = 0
    /\ mwNextArg = "none"
    /\ mwLogged = 0
    /\ mwEscaped = FALSE
    /\ endedBy = "nobody"
    /\ nextBy = <<>>
    /\ unwinding = <<>>
    /\ mwReply = [status |-> 0]

\* createApp starts, or resumes after an await, while no handler is running
BootResume ==
    /\ ~Booted
    /\ mwPhase # "dispatch"
    /\ LET r == BootRun(build, bootAt, appStack, listening)
       IN /\ appStack' = r.stack
          /\ bootAt' = r.at
          /\ listening' = r.listening
    /\ UNCHANGED <<mwMap, bootPc, reqPath, layerPos, ran, mwPhase, mwErr,
                   mwNextCalls, mwNextArg, mwLogged, mwEscaped, endedBy, build,
                   autoMap, globals, nextBy, unwinding, mwReply>>
    /\ UNCHANGED exceptMw

\* a request arrives at the open port
BootDispatch ==
    /\ listening
    /\ mwPhase = "idle"
    /\ \E p \in RequestPaths : reqPath' = p
    /\ layerPos' = 1
    /\ mwPhase' = "dispatch"
    /\ UNCHANGED <<mwMap, appStack, bootPc, ran, mwErr, mwNextCalls, mwNextArg,
                   mwLogged, mwEscaped, endedBy, bootVars, nextBy, unwinding,
                   mwReply>>
    /\ UNCHANGED exceptMw

\* no layer is left for the request: the host's final handler answers, 404
\* for a request and 500 for an error, unless the response was sent already
FinalHandler ==
    /\ mwPhase = "dispatch"
    /\ NextLayer(appStack, layerPos, reqPath, mwErr) = 0
    /\ endedBy' = IF endedBy = "nobody" THEN "finalhandler" ELSE endedBy
    /\ mwReply' = IF endedBy = "nobody"
                  THEN [status |-> IF mwErr THEN ErrorStatus ELSE NotFoundStatus,
                        html |-> TRUE]
                  ELSE mwReply
    /\ mwPhase' = "done"
    /\ layerPos' = Len(appStack)
    /\ UNCHANGED <<mwMap, appStack, bootPc, reqPath, ran, mwErr, mwNextCalls,
                   mwNextArg, mwLogged, mwEscaped, bootVars, nextBy, unwinding>>
    /\ UNCHANGED exceptMw

\* next() has returned into a middleware that goes on to throw or reject.
\* The wrapper's catch block logs and calls next(err); without the wrapper
\* the host catches the throw, and forwards or drops the rejection.  The
\* host resumes after the layer it reached last, now with the error.
Unwind ==
    /\ mwPhase \in {"done", "hung"}
    /\ unwinding # <<>>
    /\ LET i == unwinding[Len(unwinding)]
           how == IF ran[i].does = "nextThenThrow" THEN "throw" ELSE "reject"
           forwarded ==
               /\ mwErr' = TRUE
               /\ mwNextArg' = "error"
               /\ mwLogged' = IF Wrapped(ran[i]) THEN 1 ELSE mwLogged
               /\ layerPos' = layerPos + 1
               /\ mwPhase' = "dispatch"
               /\ nextBy' = [nextBy EXCEPT ![i] = @ + 1]
               /\ UNCHANGED mwEscaped
           dropped ==
               /\ mwEscaped' = TRUE
               /\ UNCHANGED <<mwErr, mwNextArg, mwLogged, layerPos, mwPhase,
                              nextBy>>
       IN /\ IF Wrapped(ran[i])
             THEN IF WrapperCatches(how) THEN forwarded ELSE dropped
             ELSE IF how = "throw" THEN forwarded ELSE forwarded \/ dropped
          /\ unwinding' = SubSeq(unwinding, 1, Len(unwinding) - 1)
    /\ UNCHANGED <<mwMap, appStack, bootPc, reqPath, ran, mwNextCalls, endedBy,
                   bootVars, mwReply>>
    /\ UNCHANGED exceptMw

BootNext ==
    \/ BootResume
    \/ BootDispatch
    \/ RunLayer
    \/ MiddlewareSettles
    \/ Unwind
    \/ FinalHandler

BootSpec == BootInit /\ [][BootNext]_vars

-----------------------------------------------------------------------------
(* Source-location enrichment in the catch blocks: wrapHandler              *)
(* (src/dist/router.js 597-625), loadApiRoutes (src/dist/router.js          *)
(* 155-181) and errorHandler (src/dist/error-handler.js 9-56, 85-108)       *)

\* lines of err.stack
MaxStackLines == 3
\* lines of the source file the stack names, and the line number it names
MaxLine == 2
\* files after the failing one in the loop of loadApiRoutes
MaxRest == 2

\* What was caught.
\*   kind      : "nullish" (throw undefined), "noStack" (a value without a
\*               stack, or with an empty one), "stack"
\*   lines     : lines of err.stack
\*   frame     : the second line holds "(file:line:col)" ("paren") or not
\*   file      : the file named there is "missing", exists but is
\*               "unreadable" (a directory, no permission), or "readable"
\*   line      : the line number named there
\*   fileLines : lines of that file
CaughtError(kind, lines, frame, file, line, fileLines) ==
    [kind |-> kind, lines |-> lines, frame |-> frame, file |-> file,
     line |-> line, fileLines |-> fileLines]

CaughtErrors ==
    {CaughtError(k, 1, "bare", "missing", 1, 1) : k \in {"nullish", "noStack"}}
    \cup {CaughtError("stack", n, f, file, l, fl) :
             n \in 1..MaxStackLines, f \in {"paren", "bare"},
             file \in {"missing", "unreadable", "readable"},
             l \in 1..MaxLine, fl \in 1..MaxLine}

Sites == {"wrapHandler", "loadApiRoutes", "errorHandler"}

EnrichThrows == [threw |-> TRUE, fileInfo |-> ""]
EnrichGives(info) == [threw |-> FALSE, fileInfo |-> info]

\* if (err.stack) {
\*   const stackLine = err.stack.split('\n')[1];
\*   const match = stackLine.match(/\((.*):(\d+):(\d+)\)/);
\*   if (match) { fileInfo = `${file}:${line}:${col}`;
\*     if (fs.existsSync(file)) {
\*       const codeLines = fs.readFileSync(file, 'utf-8').split('\n');
\*       const codeSnippet = codeLines[parseInt(line) - 1].trim(); .. } } }
InlineEnrichment(e) ==
    CASE e.kind = "nullish" -> EnrichThrows
      [] e.kind = "noStack" -> EnrichGives("")
      [] e.lines < 2 -> EnrichThrows
      [] e.frame # "paren" -> EnrichGives("")
      [] e.file = "missing" -> EnrichGives("location")
      [] e.file = "unreadable" -> EnrichThrows
      [] e.line > e.fileLines -> EnrichThrows
      [] OTHER -> EnrichGives("location,snippet")

\* extractErrorInfo returns null without a stack, without a line that
\* matches, and without a match of the pattern; getCodeSnippet reads inside
\* try/catch and uses lines[lineNumber - 1]?.trim() || ""
ExtractErrorInfo(e) ==
    IF e.kind = "stack" /\ e.lines >= 2 /\ e.frame = "paren"
    THEN EnrichGives("location")
    ELSE EnrichGives("")

Enrichment(where, e) ==
    IF where = "errorHandler" THEN ExtractErrorInfo(e) ELSE InlineEnrichment(e)

EnrichInit ==
    /\ SubIdle
    /\ ReqIdle
    /\ LoadIdle
    /\ RouteIdle
    /\ WalkIdle
    /\ MwIdle
    /\ EnrichIdle

\* a handler, or the import of a route file, fails and the catch block is
\* entered; the error handler is called with an error
Catches ==
    /\ enPc = "idle"
    /\ enSite' \in Sites
    /\ enErr' \in CaughtErrors
    /\ enRest' \in (IF enSite' = "loadApiRoutes" THEN 0..MaxRest ELSE {0})
    /\ enPc' = "caught"
    /\ UNCHANGED <<enFileInfo, enLogged, enNext>>
    /\ UNCHANGED exceptEnrich

\* the enrichment runs; what it throws leaves the catch block
Enriches ==
    /\ enPc = "caught"
    /\ LET r == Enrichment(enSite, enErr)
       IN /\ enFileInfo' = r.fileInfo
          /\ enPc' = IF r.threw THEN "threw" ELSE "enriched"
    /\ UNCHANGED <<enSite, enErr, enLogged, enNext, enRest>>
    /\ UNCHANGED exceptEnrich

\* logger.error(`${err.name}: ${err.message}`);
\* if (fileInfo) logger.error(`Location: ${fileInfo}`);
\* and then next(err) in wrapHandler, the next file in loadApiRoutes, the
\* response in errorHandler
LogsAndGoesOn ==
    /\ enPc = "enriched"
    /\ enLogged' = IF enFileInfo = "" THEN 1 ELSE 2
    /\ enNext' = IF enSite = "wrapHandler" THEN 1 ELSE 0
    /\ enPc' = IF enSite = "loadApiRoutes" THEN "looping" ELSE "done"
    /\ UNCHANGED <<enSite, enErr, enFileInfo, enRest>>
    /\ UNCHANGED exceptEnrich

\* for (const file of files): the files after the one that failed
LoadsRest ==
    /\ enPc = "looping"
    /\ IF enRest > 0
       THEN enRest' = enRest - 1 /\ UNCHANGED enPc
       ELSE enPc' = "done" /\ UNCHANGED enRest
    /\ UNCHANGED <<enSite, enErr, enFileInfo, enLogged, enNext>>
    /\ UNCHANGED exceptEnrich

EnrichNext ==
    \/ Catches
    \/ Enriches
    \/ LogsAndGoesOn
    \/ LoadsRest

EnrichSpec == EnrichInit /\ [][EnrichNext]_vars

-----------------------------------------------------------------------------
(* The sub-router of one module: src/dist/router.js 368-393, and the        *)
(* adapter's catch block (324-328) as the sub-router sees it                *)

\* the sets of names a route module can export
ExportSets == SUBSET {"GET", "POST", "PUT", "DELETE", "PATCH", "OPTIONS",
                      "HEAD", "default", "helper"}

\* the module src/api/users/route.ts with these exports
ModuleWith(exports) ==
    FileAt(1, [name |-> "route.ts", eval |-> "ok", exports |-> exports])

\* What an invoked handler does:
\*   "answers"          returns a value the adapter sends
\*   "returnsUndefined" returns undefined without touching the response
\*   "throwsError"      throws an Error (or any truthy value)
\*   "throwsFalsy"      throws 0, "" or false: the adapter calls next(err)
\*                      with a value the host reads as "no error"
\*   "throwsNullish"    throws undefined or null: error.message throws
\*                      inside the catch block
Outcomes == {"answers", "returnsUndefined", "throwsError", "throwsFalsy",
             "throwsNullish"}

\* the registration handles the method: a route without a HEAD handler
\* takes HEAD requests with its GET handler
Handles(reg, method) ==
    \/ reg.method = method
    \/ /\ method = "HEAD"
       /\ reg.method = "GET"

\* the first registration from position `from` on that handles the method
NextRegistration(regs, from, method) ==
    LET hits == {k \in from..Len(regs) : Handles(regs[k], method)}
    IN IF hits = {} THEN 0 ELSE CHOOSE k \in hits : \A h \in hits : k <= h

SubInit ==
    /\ EnrichIdle
    /\ ReqIdle
    /\ LoadIdle
    /\ RouteIdle
    /\ WalkIdle
    /\ MwIdle
    /\ srExports \in ExportSets
    /\ srStack = ModuleRegistrations(ModuleWith(srExports))
    /\ srMethod = ""
    /\ srPos = 0
    /\ srInvoked = <<>>
    /\ srPhase = "idle"
    /\ srAnsweredBy = "nobody"

\* app.use(route, routeRouter) hands a request for the route to the
\* sub-router
SubRequest ==
    /\ srPhase = "idle"
    /\ \E m \in {HTTP_METHODS[i] : i \in 1..Len(HTTP_METHODS)} : srMethod' = m
    /\ srPos' = 1
    /\ srPhase' = "dispatch"
    /\ UNCHANGED <<srExports, srStack, srInvoked, srAnsweredBy>>
    /\ UNCHANGED exceptSub

\* the sub-router calls the adapter of the next registration that handles
\* the method; with none left the request leaves the sub-router and reaches
\* the 404 handler
SubRun ==
    /\ srPhase = "dispatch"
    /\ LET k == NextRegistration(srStack, srPos, srMethod)
       IN IF k = 0
          THEN /\ srAnsweredBy' = "notFound"
               /\ srPhase' = "done"
               /\ UNCHANGED <<srPos, srInvoked>>
          ELSE /\ srInvoked' = Append(srInvoked, srStack[k].export)
               /\ srPos' = k + 1
               /\ \E o \in Outcomes :
                     CASE o = "answers" ->
                             /\ srAnsweredBy' = srStack[k].export
                             /\ srPhase' = "done"
                       [] o = "throwsError" ->
                             /\ srAnsweredBy' = "errorHandler"
                             /\ srPhase' = "done"
                       [] o = "throwsFalsy" ->
                             /\ srPhase' = "dispatch"
                             /\ UNCHANGED srAnsweredBy
                       [] OTHER ->
                             /\ srPhase' = "hung"
                             /\ UNCHANGED srAnsweredBy
    /\ UNCHANGED <<srExports, srStack, srMethod>>
    /\ UNCHANGED exceptSub

SubNext ==
    \/ SubRequest
    \/ SubRun

SubSpec == SubInit /\ [][SubNext]_vars

-----------------------------------------------------------------------------
(* Properties of the handler-result interpreter *)

\* the adapter has run for the request in flight
Ran == phase \notin {"idle", "handler"}

\* the handler returned (it did not throw or reject)
Returned == Ran /\ fn.outcome = "return"

\* the handler had flushed the response headers itself when it returned
SentByHandler == fn.direct \in {"flush", "end"}

\* the handler returned an object that the adapter went on to interpret
ObjectInterpreted ==
    Returned /\ ~SentByHandler /\ fn.result.kind = "object"

TerminalPositions == {i \in 1..Len(ops) : IsTerminal(ops[i])}

\* C1: when the handler returns with the response already sent, or returns
\* undefined, the adapter makes no call on the response sink at all.
C1_NoWriteAfterSentOrUndefined ==
    (Returned /\ (SentByHandler \/ fn.result.kind = "undefined"))
        => (ops = <<>> /\ res = AfterHandler(fn))

\* the handler ended the response itself and then returned an object with a
\* body, headers and a redirect: the adapter stayed silent
C1_Witness ==
    /\ Returned /\ fn.direct = "end" /\ fn.result.kind = "object"
    /\ fn.result.o.body = "value" /\ fn.result.o.redirect # ""
    /\ fn.result.o.headers # <<>>
    /\ ops = <<>>

\* C2: every entry of `headers` and of `cookies` of a returned object has
\* been applied to the sink before any terminal call is made, whichever
\* terminal call it is.
C2_HeadersAndCookiesBeforeTerminal ==
    (Returned /\ fn.result.kind = "object") =>
        \A i \in TerminalPositions :
            /\ \A k \in 1..Len(fn.result.o.headers) :
                  \E j \in 1..(i - 1) :
                      ops[j] = Op("setHeader", fn.result.o.headers[k], 0)
            /\ \A k \in 1..Len(fn.result.o.cookies) :
                  \E j \in 1..(i - 1) :
                      ops[j] = Op("cookie", fn.result.o.cookies[k], 0)

\* a redirect fired for an object that also carried headers and cookies
C2_Witness ==
    /\ ObjectInterpreted
    /\ Len(fn.result.o.headers) = MaxHeaders
    /\ Len(fn.result.o.cookies) = MaxCookies
    /\ LastOp(ops) = "redirect"
    /\ Len(ops) = MaxHeaders + MaxCookies + 1

\* the terminal call the precedence redirect > file > stream > raw > static
\* > JSON selects among the fields that are present
ExpectedTerminal(o) ==
    IF o.redirect # "" THEN "redirect"
    ELSE IF o.file # "none" THEN "download"
    ELSE IF o.stream THEN "pipe"
    ELSE IF o.raw # "absent" THEN "send"
    ELSE IF o.static # "none" THEN "sendFile"
    ELSE "json"

\* C3: for a returned object exactly one terminal call is made, the one the
\* precedence redirect > file > stream > raw > static > JSON selects among
\* the fields present; a lower one never fires when a higher one is present.
C3_ExactlyOneTerminalByPrecedence ==
    (ObjectInterpreted /\ ~thrown.present) =>
        /\ Cardinality(TerminalPositions) = 1
        /\ LastOp(ops) = ExpectedTerminal(fn.result.o)

\* C4: an object with `redirect` set yields a redirect to that target with
\* the object's status, or 302 when it has none, and its body is never
\* sent, whatever the other fields are.
C4_RedirectWinsOverBody ==
    (ObjectInterpreted /\ fn.result.o.redirect # "") =>
        /\ ops[Len(ops)] =
              Op("redirect", fn.result.o.redirect,
                 IF fn.result.o.status # 0 THEN fn.result.o.status ELSE 302)
        /\ \A i \in 1..Len(ops) : ops[i].op \notin {"send", "json"}
        /\ res.ended
        /\ res.statusCode = (IF fn.result.o.status # 0 THEN fn.result.o.status ELSE 302)

\* a redirect with a status of its own fired although a body, a raw payload
\* and a file were returned too
C4_Witness ==
    /\ ObjectInterpreted
    /\ fn.result.o.redirect = "/new-route" /\ fn.result.o.status = 201
    /\ fn.result.o.body = "value" /\ fn.result.o.raw = "bytes"
    /\ fn.result.o.file = "named"
    /\ res.statusCode = 201 /\ res.ended

\* none of redirect, file, stream, raw, static is set on the object
PlainObject(o) ==
    /\ o.redirect = "" /\ o.file = "none" /\ ~o.stream
    /\ o.raw = "absent" /\ o.static = "none"

\* C5: an object with none of redirect/file/stream/raw/static yields JSON
\* with the object's status (200 when absent) and, as body, the object's
\* `body` when the key exists and the whole object otherwise.
C5_JsonStatusAndBody ==
    (ObjectInterpreted /\ PlainObject(fn.result.o) /\ fn.result.o.body # "circular") =>
        /\ res.statusCode = (IF fn.result.o.status # 0 THEN fn.result.o.status ELSE 200)
        /\ ops[Len(ops)] =
              Op("json", IF fn.result.o.body = "absent" THEN "result"
                         ELSE fn.result.o.body, 0)

\* the text a primitive is written as
LiteralText(r) ==
    CASE r = Prim("string", "ok", 0, FALSE) -> "ok"
      [] r = Prim("string", "", 0, FALSE) -> ""
      [] r = Prim("number", "", 7, FALSE) -> "7"
      [] r = Prim("number", "", 42, FALSE) -> "42"
      [] r = Prim("boolean", "", 0, TRUE) -> "true"
      [] r = Prim("boolean", "", 0, FALSE) -> "false"
      [] OTHER -> "?"

PrimitiveInterpreted ==
    Returned /\ ~SentByHandler /\ fn.result.kind \in {"string", "number", "boolean"}

\* C6 as claimed: a returned string, number or boolean is sent with status
\* 200 and its literal text as body, with no header, cookie, redirect or
\* JSON step.
C6_PrimitiveSentWith200 ==
    PrimitiveInterpreted =>
        /\ ops = <<Op("send", LiteralText(fn.result), 0)>>
        /\ res.statusCode = 200

\* C6 as amended: a returned string, number or boolean is sent by one send
\* call with its literal text as body and with the status the sink already
\* carries: 200 unless the handler set another one itself.
C6_PrimitiveSentWithSinkStatus ==
    PrimitiveInterpreted =>
        /\ ops = <<Op("send", LiteralText(fn.result), 0)>>
        /\ res.ended
        /\ res.statusCode = (IF fn.direct = "status" THEN 202 ELSE 200)

\* the number 7 went out as the text "7" with status 200, and the boolean
\* true as "true"
C6_Witness ==
    /\ PrimitiveInterpreted
    /\ fn.result.kind = "boolean" /\ fn.result.bool
    /\ ops = <<Op("send", "true", 0)>>
    /\ res.statusCode = 200 /\ res.ended

\* C7: whatever is thrown while the wrapped handler runs or its result is
\* interpreted is caught, logged and passed to next(err) exactly once; the
\* adapter sends nothing for it and its promise does not reject.
C7_ErrorsForwardedOnce ==
    (Ran /\ thrown.present) =>
        /\ logged = 1
        /\ nextCalls = 1
        /\ ~escaped
        /\ \A i \in 1..Len(ops) : ~IsTerminal(ops[i])

\* the pipeline has nothing left to do for the request
Settled == phase \in {"done", "hung"}

\* C8: a request whose handler throws or rejects ends with a complete HTTP
\* response, in whatever state the response was when it failed, and the
\* server keeps running.
C8_FailedRequestAnswered ==
    (Settled /\ fn.outcome # "return") =>
        /\ res.ended
        /\ ~res.aborted
        /\ alive

\* serving the returned static file failed and the error chain has run
StaticFailed ==
    /\ phase = "done"
    /\ LastOp(ops) = "sendFile"
    /\ res.by # "adapter"

\* C9: when serving a returned `static` file fails, the client receives a
\* 500 response and nothing escapes the adapter.
C9_StaticFailureAnswers500 ==
    StaticFailed => (res.ended /\ res.statusCode = 500 /\ ~escaped)

-----------------------------------------------------------------------------
(* Properties of the route loader *)

\* every method export and the default export of file i is registered
RoutesRegistered(i) ==
    \A e \in files[i].exports \cap ({"default"} \cup {HTTP_METHODS[k] : k \in 1..7}) :
        \E j \in 1..Len(registered) :
            /\ registered[j].route = "/api/" \o files[i].dir
            /\ registered[j].export = e

\* C10: a route file that throws while it is imported never stops the load:
\* loadApiRoutes does not reject, logs each failure, and registers the
\* routes of every other route file.
C10_FailingFileIsolated ==
    /\ loadPc[1] # "rejected"
    /\ loadPc[1] = "done" =>
          \A i \in 1..Len(files) :
              /\ files[i].eval # "ok" => FilePath(files[i]) \in loadLog
              /\ (files[i].eval = "ok" /\ files[i].name = "route.ts")
                    => RoutesRegistered(i)

\* the (method, route) pairs invocation c registered on the application
PairsRegistered(c) ==
    LET regs == RegisterFrom(1, files, imports[c])
    IN {<<regs[j].method, regs[j].route>> : j \in 1..Len(regs)}

\* C11: the number loadApiRoutes returns equals the number of (HTTP method,
\* route path) pairs it registered on the application, for every combination
\* of method exports and default export of the loaded modules.
C11_CountEqualsRegisteredPairs ==
    \A c \in 1..MaxOverlap :
        loadPc[c] = "done" => count[c] = Cardinality(PairsRegistered(c))

\* C12: in production, over any sequence of loads in one process, a path
\* that was loaded successfully is never imported again: its import ran
\* exactly once, and every later load is served from the module cache.
C12_CachedPathImportedOnce ==
    nodeEnv = "production" =>
        \A i \in 1..Len(files) :
            /\ files[i].eval = "ok" => importRuns[i] <= 1
            /\ FilePath(files[i]) \in moduleCache =>
                  /\ files[i].eval = "ok"
                  /\ importRuns[i] = 1
                  /\ loadPc[1] = "awaiting" => imports[1][i] = "fulfilled"

\* the second load of a process in production has returned: the first file
\* was imported once and is in the cache
C12_Witness ==
    /\ nodeEnv = "production"
    /\ loads = 2 /\ loadPc[1] = "done"
    /\ Len(files) = MaxFiles
    /\ files[1].eval = "ok" /\ importRuns[1] = 1
    /\ FilePath(files[1]) \in moduleCache
    /\ files[2].eval = "throw" /\ importRuns[2] = 2

\* C13: every write to the module cache happens in production, stores a
\* module whose import succeeded, and happens at most once per file path,
\* also when invocations of loadApiRoutes overlap; in development the cache
\* is neither read nor written.
C13_CacheWrittenOncePerPath ==
    /\ \A i \in 1..Len(files) :
          /\ cacheWrites[i] <= 1
          /\ cacheWrites[i] > 0 => (nodeEnv = "production" /\ files[i].eval = "ok")
    /\ nodeEnv = "development" =>
          /\ cacheReads = 0
          /\ moduleCache = {}
          /\ \A i \in 1..Len(files) : cacheWrites[i] = 0

\* how often x occurs in the sequence q
Occurrences(q, x) == Cardinality({j \in 1..Len(q) : q[j] = x})

\* typeof module[name] === 'function' for a method name or for `default`
Recognized(f) == f.exports \cap {"GET", "POST", "PUT", "DELETE", "PATCH",
                                 "OPTIONS", "HEAD", "default"}

\* C25: a run of the registration loop mounts, for every module, a
\* sub-router at most once, at the module's route path, and exactly when
\* the module contributed a registration in that run; a module that loaded
\* but exports neither a method name nor default adds no registration and
\* no mount, and the load returns.
C25_MountedIffRegistered ==
    [][(loadPc[1] = "awaiting" /\ loadPc'[1] = "done") =>
          LET regs == SubSeq(registered', Len(registered) + 1, Len(registered'))
              mounts == SubSeq(mounted', Len(mounted) + 1, Len(mounted'))
              contributed(r) == \E j \in 1..Len(regs) : regs[j].route = r
          IN /\ \A i \in 1..Len(files) :
                  LET r == "/api/" \o files[i].dir
                  IN /\ Occurrences(mounts, r) = (IF contributed(r) THEN 1 ELSE 0)
                     /\ (files[i].eval = "ok" /\ Recognized(files[i]) = {})
                            => ~contributed(r)
             /\ \A j \in 1..Len(mounts) :
                   \E i \in 1..Len(files) : mounts[j] = "/api/" \o files[i].dir]_vars

\* a load has returned for a module without any recognized export next to
\* one that exports handlers: only the second was mounted
C25_Witness ==
    /\ loadPc[1] = "done"
    /\ Len(files) >= 2
    /\ files[1].name = "route.ts" /\ files[1].eval = "ok"
    /\ Recognized(files[1]) = {}
    /\ Recognized(files[2]) = {"GET", "POST", "default"}
    /\ mounted = <<"/api/" \o files[2].dir>>
    /\ Len(registered) = 3

-----------------------------------------------------------------------------
(* Properties of the route map *)

\* t begins with the characters of prefix
HasPrefix(t, prefix) ==
    Len(t) >= Len(prefix) /\ SubSeq(t, 1, Len(prefix)) = prefix

\* C15: what filePathToRoute returns depends only on its inputs: after any
\* history of calls it is what a fresh computation gives, and a non-null
\* result starts with the baseRoute of that call.
C15_RouteDependsOnInputsOnly ==
    routeCalls > 0 =>
        /\ route = ComputeRoute(routeFile, baseRoute)
        /\ ~route.isNull => HasPrefix(route.text, baseRoute)

\* C16: a returned route template has no two consecutive slashes and ends
\* with a slash only when it is the root route "/".
C16_NoDoubleOrTrailingSlash ==
    (routeCalls > 0 /\ ~route.isNull) =>
        /\ \A i \in 1..(Len(route.text) - 1) :
              ~(route.text[i] = "/" /\ route.text[i + 1] = "/")
        /\ EndsWith(route.text, "/") => route.text = <<"/">>

\* the pieces of a template between its slashes
RECURSIVE SplitOnSlash(_, _)
SplitOnSlash(t, piece) ==
    IF t = <<>> THEN (IF piece = <<>> THEN <<>> ELSE <<piece>>)
    ELSE IF Head(t) = "/"
         THEN (IF piece = <<>> THEN <<>> ELSE <<piece>>) \o SplitOnSlash(Tail(t), <<>>)
         ELSE SplitOnSlash(Tail(t), Append(piece, Head(t)))

\* a folder named [name]
Bracketed(s) == Len(s) >= 3 /\ s[1] = "[" /\ s[Len(s)] = "]"

\* the name inside the brackets
RECURSIVE Inside(_)
Inside(s) ==
    IF s = <<>> THEN <<>>
    ELSE IF Head(s) \in {"[", "]"} THEN Inside(Tail(s))
    ELSE <<Head(s)>> \o Inside(Tail(s))

\* C17: for a route file under N folders named [name] the template has
\* exactly N parameters :name, in the order of the folders, and every other
\* folder name appears unchanged at its place.
C17_BracketsBecomeParameters ==
    (routeCalls > 0 /\ routeFile.filename \in {"route.ts", "route.js"}) =>
        LET pieces == SplitOnSlash(route.text, <<>>)
            n == Len(routeFile.parts)
            first == Len(pieces) - n
        IN /\ ~route.isNull
           /\ first >= 0
           /\ \A i \in 1..n :
                 pieces[first + i] =
                    IF Bracketed(routeFile.parts[i])
                    THEN <<":">> \o Inside(routeFile.parts[i])
                    ELSE routeFile.parts[i]
           /\ Cardinality({i \in 1..Len(pieces) : pieces[i][1] = ":"})
                 = Cardinality({i \in 1..n : Bracketed(routeFile.parts[i])})

\* users/[id]/route.ts under /api gave /api/users/:id
C17_Witness ==
    /\ routeCalls = 1
    /\ routeFile = [parts |-> <<(<<"u", "s", "e", "r", "s">>), (<<"[", "i", "d", "]">>)>>,
                    filename |-> "route.ts"]
    /\ baseRoute = <<"/", "a", "p", "i">>
    /\ route = RouteText(<<"/", "a", "p", "i", "/", "u", "s", "e", "r", "s",
                           "/", ":", "i", "d">>)

-----------------------------------------------------------------------------
(* Properties of the directory walk *)

\* the directories of the tree that can be listed: the root, its readable
\* subdirectories and the chain below the first one when that is readable
ReadableDirs(t) ==
    {<<>>} \cup {<<i>> : i \in (1..t.width) \ {t.bad}}
           \cup (IF t.bad = 1 THEN {}
                 ELSE {[j \in 1..k |-> 1] : k \in 2..(t.chain + 1)})

\* the names ending in .ts, .js, .mts or .mjs among those of a directory
SourceNames ==
    {<<"r", "o", "u", "t", "e", ".", "t", "s">>, <<"u", "t", "i", "l", ".", "j", "s">>,
     <<"a", ".", "m", "t", "s">>, <<"b", ".", "m", "j", "s">>}

\* C18: collectFiles returns every file with a source extension of every
\* readable directory, at any depth and for any number of sibling
\* subdirectories, and no other path; an unreadable subdirectory is skipped
\* with a warning.
C18_AllSourceFilesCollected ==
    walkPc = "returned" =>
        /\ {walkResult[i] : i \in 1..Len(walkResult)} =
              {[dir |-> d, name |-> n] : d \in ReadableDirs(tree), n \in SourceNames}
        /\ warned = (IF tree.bad > 0 THEN {<<tree.bad>>} ELSE {})

\* C26: the walk reads no directory nested deeper than maxDepth levels
\* below the root: every collected path and every warning belongs to a
\* directory at most maxDepth levels down, for any tree.
C26_NothingReadBelowDepthCeiling ==
    /\ \A i \in 1..Len(walkResult) : Len(walkResult[i].dir) <= maxDepth
    /\ \A d \in warned : Len(d) <= maxDepth

-----------------------------------------------------------------------------
(* Properties of the middleware stack *)

\* middleware number j of the list for `prefix` ran among the first n runs
RanBefore(n, prefix, j) ==
    \E i \in 1..n :
        /\ ran[i].kind = "middleware"
        /\ ran[i].route = prefix
        /\ ran[i].index = j

\* the list the map holds for `prefix`
ListFor(prefix) ==
    IF mwMap[1].route = prefix THEN mwMap[1].middlewares ELSE mwMap[2].middlewares

\* C19: for a request under a prefix of the map the middlewares of that
\* prefix run in list order, each only after the one before it called
\* next(), and all of them before the route handler; a middleware that ends
\* the response without calling next() is the last thing that runs.
C19_MiddlewaresInOrderBeforeRoute ==
    \A k \in 1..Len(ran) :
        /\ ran[k].kind = "middleware" =>
              /\ Under(reqPath, ran[k].route)
              /\ ~RanBefore(k - 1, ran[k].route, ran[k].index)
              /\ \A j \in 1..(ran[k].index - 1) :
                    /\ RanBefore(k - 1, ran[k].route, j)
                    /\ ListFor(ran[k].route)[j] \in {"next", "asyncNext"}
              /\ ListFor(ran[k].route)[ran[k].index] \in {"end", "hang", "throw", "reject"}
                    => k = Len(ran)
        /\ ran[k].kind = "route" =>
              /\ k = Len(ran)
              /\ \A e \in 1..2 :
                    Under(reqPath, mwMap[e].route) =>
                        \A j \in 1..Len(mwMap[e].middlewares) :
                            RanBefore(k - 1, mwMap[e].route, j)

\* a request for /api/users went through the full lists of /api and of
\* /api/users, the second of /api awaiting before it continued, and then
\* reached the route handler
C19_Witness ==
    /\ reqPath = <<"api", "users">>
    /\ Len(mwMap[1].middlewares) = MaxMiddlewares
    /\ Len(mwMap[2].middlewares) = MaxMiddlewares
    /\ mwMap[1].middlewares[MaxMiddlewares] = "asyncNext"
    /\ Len(ran) = 2 * MaxMiddlewares + 1
    /\ ran[Len(ran)].kind = "route"
    /\ endedBy = "route"

\* the middleware run last threw or rejected, and its wrapper has finished
FailedMiddleware ==
    /\ Len(ran) > 0
    /\ ran[Len(ran)].kind = "middleware"
    /\ ListFor(ran[Len(ran)].route)[ran[Len(ran)].index] \in {"throw", "reject"}
    /\ mwPhase # "awaiting"

-----------------------------------------------------------------------------
(* Properties of createApp *)

\* the layer createMiddleware attaches for the same map entry
AsExplicit(layer) == Layer("middleware", layer.route, layer.index, layer.does)

\* the middleware run last came from the exported map and has failed
FailedAuto ==
    /\ Len(ran) > 0
    /\ ran[Len(ran)].kind = "auto"
    /\ ran[Len(ran)].does \in {"throw", "reject"}
    /\ mwPhase # "awaiting"

\* C21: a middlewares module that exports a prefix-to-list map is attached
\* exactly as createMiddleware attaches the same map: each layer is the
\* wrapped middleware, so a throw or a rejection of it is logged by the
\* wrapper and passed to next(err), and never leaves the layer unhandled.
C21_AutoMapAttachedAsExplicit ==
    /\ \A k \in 1..Len(appStack) :
          appStack[k].kind = "auto" => appStack[k] = AsExplicit(appStack[k])
    /\ FailedAuto => mwLogged = 1 /\ mwNextArg = "error" /\ ~mwEscaped

\* no route attached to the application is registered for the path
Unmatched(path) ==
    \A k \in 1..Len(appStack) :
        appStack[k].kind = "route" => appStack[k].route # path

DefaultHandlerAnswered ==
    /\ phase = "done"
    /\ ~customHandler
    /\ res.by = "errorHandler"

\* C23: without a custom error handler an error forwarded from a route is
\* answered with status 500 and the JSON body { error: "Internal Server
\* Error" }, with the additional key `detail` (the error's message) in every
\* mode but production, and with no more than `error` in production.
C23_DetailOutsideProduction ==
    DefaultHandlerAnswered =>
        /\ res.statusCode = ErrorStatus
        /\ nodeEnv # "production" => res.json = "error,detail"
        /\ nodeEnv = "production" => res.json = "error"

-----------------------------------------------------------------------------
(* Properties of the location enrichment *)

\* C24: whatever the stack text of the error (no second line, no
\* file:line:col, a line number past the end of the file, a file that
\* cannot be read), the enrichment leaves the propagation alone: the catch
\* block of wrapHandler logs and calls next(err) once, and the catch block
\* of loadApiRoutes logs and goes on to the remaining files.
C24_EnrichmentNeverChangesPropagation ==
    /\ enPc # "threw"
    /\ enPc = "done" =>
          /\ enLogged >= 1
          /\ enSite = "wrapHandler" => enNext = 1
          /\ enSite = "loadApiRoutes" => enRest = 0

-----------------------------------------------------------------------------
(* Properties of the bootstrap order *)

\* every statement of createApp that attaches layers has been executed
AllAttached ==
    \A k \in 1..Len(BootSteps(build)) :
        BootSteps(build)[k] # "listen" => k < bootAt

\* C27: the port is opened only after createApp has attached all
\* middlewares, the routes, the error handler and the 404 handler; no request
\* is dispatched while the route loading is still pending.
C27_ListensAfterEverythingAttached ==
    /\ listening => AllAttached
    /\ mwPhase # "idle" => AllAttached

\* the layers the application's middleware lists call for: one for each
\* position of each list
ListedLayers ==
    LET all == GlobalLayers(globals)
               \o (IF mwMap = <<>> THEN <<>> ELSE MiddlewareLayers(mwMap))
               \o (IF autoMap = <<>> THEN <<>> ELSE AutoLayers(autoMap))
    IN {all[k] : k \in 1..Len(all)}

\* C28: when createApp has returned, every middleware of the middleware map
\* and every global middleware of expressOptions.middlewares is attached
\* exactly once for each of its occurrences in its list, and so runs at most
\* once for a request.
C28_EachMiddlewareAttachedOnce ==
    /\ Booted => \A layer \in ListedLayers : Occurrences(appStack, layer) = 1
    /\ \A i, j \in 1..Len(ran) : ran[i] = ran[j] => i = j

\* C29: for every invocation of a middleware wrapped by wrapMiddleware,
\* next is called at most once in total, by the middleware or by the catch
\* block of the wrapper, also when the middleware calls next() and then
\* throws or rejects.
C29_NextAtMostOncePerInvocation ==
    \A i \in 1..Len(ran) :
        Wrapped(ran[i]) => nextBy[i] <= 1

-----------------------------------------------------------------------------
(* Properties of the sub-router of a module *)

\* the place of an export in the registration order
Rank(export) ==
    IF export = "default" THEN Len(HTTP_METHODS) + 1
    ELSE CHOOSE i \in 1..Len(HTTP_METHODS) : HTTP_METHODS[i] = export

\* C30: the handlers of a module are registered in the order GET, POST, PUT,
\* DELETE, PATCH, OPTIONS, HEAD and then the default export as GET; when the
\* module exports both GET and default, a GET request goes to the named GET
\* handler and the default handler is never invoked for it.
C30_NamedGetShadowsDefault ==
    /\ \A i, j \in 1..Len(srStack) :
          i < j => Rank(srStack[i].export) < Rank(srStack[j].export)
    /\ \A e \in srExports \cap Recognized(ModuleWith(srExports)) :
          \E i \in 1..Len(srStack) :
              /\ srStack[i].export = e
              /\ srStack[i].method = (IF e = "default" THEN "GET" ELSE e)
    /\ ({"GET", "default"} \subseteq srExports /\ srMethod = "GET") =>
          /\ \A i \in 1..Len(srInvoked) : srInvoked[i] # "default"
          /\ Len(srInvoked) > 0 => srInvoked[1] = "GET"

====
